---------------------------- MODULE Spec2Model ----------------------------
(*
  A model of the contact acquisition and resolution pipeline of outbo
  (backend/agents/*.py, backend/main.py, backend/db/mongodb.py).

  Strings whose text the code inspects (names, profile URLs, websites) are
  sequences of one-character strings, so that strip / lower / rstrip / split
  are computed as Python computes them.  Company names, websites and domains
  are sequences of chunks ("Acme", " ", "https://", "www.", "acme.io", "/"):
  a chunk is a run of characters the code never looks inside, except to
  change its case.
*)
EXTENDS Naturals, Integers, Sequences, FiniteSets, TLC

\* ------------------------------------------------------------------ bounds
MaxLen == 3        \* longest candidate list given to _deduplicate
MaxCalls == 3      \* calls of discover_company_domain in one process
MaxPeople == 2     \* longest list handed to score_people
MaxScores == 2     \* most entries in one scoring response
MaxPool == 7       \* largest scored pool given to select_final_contacts
MaxContacts == 2   \* longest contact list given to find_emails

\* ------------------------------------------------------------ text helpers
LowerCh(c) ==
  CASE c = "A" -> "a"
    [] c = "B" -> "b"
    [] c = "U" -> "u"
    [] c = "V" -> "v"
    [] c = "I" -> "i"
    [] c = "Acme" -> "acme"
    [] c = "Stripe" -> "stripe"
    [] c = "Acme.io" -> "acme.io"
    [] OTHER -> c

\* str.lower()
Lower(s) == [i \in 1..Len(s) |-> LowerCh(s[i])]

\* str.rstrip("/")
RECURSIVE RStripSlash(_)
RStripSlash(s) ==
  IF s # <<>> /\ s[Len(s)] = "/" THEN RStripSlash(SubSeq(s, 1, Len(s) - 1)) ELSE s

RECURSIVE LStripSpace(_)
LStripSpace(s) ==
  IF s # <<>> /\ s[1] = " " THEN LStripSpace(Tail(s)) ELSE s

RECURSIVE RStripSpace(_)
RStripSpace(s) ==
  IF s # <<>> /\ s[Len(s)] = " " THEN RStripSpace(SubSeq(s, 1, Len(s) - 1)) ELSE s

\* str.strip()
Strip(s) == RStripSpace(LStripSpace(s))

\* u.split("?")[0]
RECURSIVE BeforeQuery(_)
BeforeQuery(s) ==
  IF s = <<>> \/ s[1] = "?" THEN <<>> ELSE <<s[1]>> \o BeforeQuery(Tail(s))

HasChar(s, c) == \E i \in 1..Len(s) : s[i] = c

\* PeopleFinder._normalize_linkedin_url
_normalize_linkedin_url(url) ==
  IF url = <<>> \/ Strip(url) = <<>> THEN <<>>
  ELSE LET u == RStripSlash(Lower(Strip(url)))
       IN  IF HasChar(u, "?") THEN BeforeQuery(u) ELSE u

\* --------------------------------------------------------------- candidates
\* LinkedInPerson: name, title, linkedin_url (recent_activity is carried along
\* untouched by every stage and is left out).
Names == { <<"a">>, <<"A", " ">>, <<"b">>, <<>> }
Urls  == { <<>>, <<"u">>, <<"U", "/">>, <<"u", "?", "q">>, <<"v">> }

Titles == { "Software Engineer", "Technical Recruiter", "Engineering Manager",
            "Director of Engineering", "Sales Recruiter", "Sales Associate" }

LinkedInPerson == [name : Names, title : Titles, linkedin_url : Urls]

\* the keywords the code looks for that are substrings of title.lower()
TitleHas(title) ==
  CASE title = "Software Engineer"       -> { "engineer", "software" }
    [] title = "Technical Recruiter"     -> { "recruit", "recruiter" }
    [] title = "Engineering Manager"     -> { "engineer", "manager" }
    [] title = "Director of Engineering" -> { "cto", "director", "engineer" }
    [] title = "Sales Recruiter"         -> { "recruit", "recruiter", "sales" }
    [] title = "Sales Associate"         -> { "sales" }
    [] title = "Head of Recruiting"      -> { "head of", "recruit" }
    [] OTHER -> {}

EXCLUDE_KEYWORDS ==
  { "ceo", "cfo", "cto", "coo", "founder", "co-founder", "president", "vp",
    "vice president", "director", "head of", "chief", "partner",
    "general counsel", "controller", "cpa", "cfa", "board member" }

EXCLUDE_DEPARTMENTS ==
  { "finance", "accounting", "legal", "compliance", "sales", "marketing",
    "operations", "supply chain" }

\* mutant: a recruiting keyword exempts the title from both checks
hard_filter_recruit_exempt(person) ==
  IF "recruit" \in TitleHas(person.title) THEN TRUE
  ELSE TitleHas(person.title) \cap (EXCLUDE_KEYWORDS \cup EXCLUDE_DEPARTMENTS) = {}

\* hard_filter(person, role)
hard_filter(person) ==
  IF TitleHas(person.title) \cap EXCLUDE_KEYWORDS # {} THEN FALSE
  ELSE IF TitleHas(person.title) \cap EXCLUDE_DEPARTMENTS # {}
            /\ "recruit" \notin TitleHas(person.title) THEN FALSE
  ELSE TRUE

\* the two keys of _deduplicate
url_key(p)  == IF p.linkedin_url # <<>> THEN Lower(RStripSlash(p.linkedin_url)) ELSE <<>>
name_key(p) == Lower(Strip(p.name))

\* the loop of _deduplicate from index i on
RECURSIVE DedupLoop(_, _, _, _, _)
DedupLoop(people, i, seen_urls, seen_names, unique) ==
  IF i > Len(people) THEN unique
  ELSE LET p  == people[i]
           uk == url_key(p)
           nk == name_key(p)
       IN  IF uk # <<>> /\ uk \in seen_urls
             THEN DedupLoop(people, i + 1, seen_urls, seen_names, unique)
           ELSE IF nk # <<>> /\ nk \in seen_names
             THEN DedupLoop(people, i + 1, seen_urls, seen_names, unique)
           ELSE DedupLoop(people, i + 1,
                          IF uk # <<>> THEN seen_urls \cup {uk} ELSE seen_urls,
                          IF nk # <<>> THEN seen_names \cup {nk} ELSE seen_names,
                          Append(unique, p))

\* Mutant: duplicates are removed from the list while it is being iterated, so
\* the element after a removed one is never examined.
RECURSIVE DedupRemoveInLoop(_, _, _, _)
DedupRemoveInLoop(people, i, seen_urls, seen_names) ==
  IF i > Len(people) THEN people
  ELSE LET p  == people[i]
           uk == url_key(p)
           nk == name_key(p)
           without == SubSeq(people, 1, i - 1) \o SubSeq(people, i + 1, Len(people))
       IN  IF (uk # <<>> /\ uk \in seen_urls) \/ (nk # <<>> /\ nk \in seen_names)
             THEN DedupRemoveInLoop(without, i + 1, seen_urls, seen_names)
           ELSE DedupRemoveInLoop(people, i + 1,
                          IF uk # <<>> THEN seen_urls \cup {uk} ELSE seen_urls,
                          IF nk # <<>> THEN seen_names \cup {nk} ELSE seen_names)

_deduplicate_remove_in_loop(people) == DedupRemoveInLoop(people, 1, {}, {})

\* Mutant: the `url_key and` guards are missing, so the empty identifier is a
\* key like any other.
RECURSIVE DedupNoGuard(_, _, _, _, _)
DedupNoGuard(people, i, seen_urls, seen_names, unique) ==
  IF i > Len(people) THEN unique
  ELSE LET p  == people[i]
           uk == url_key(p)
           nk == name_key(p)
       IN  IF uk \in seen_urls \/ (nk # <<>> /\ nk \in seen_names)
             THEN DedupNoGuard(people, i + 1, seen_urls, seen_names, unique)
           ELSE DedupNoGuard(people, i + 1, seen_urls \cup {uk},
                             IF nk # <<>> THEN seen_names \cup {nk} ELSE seen_names,
                             Append(unique, p))

_deduplicate_no_guard(people) == DedupNoGuard(people, 1, {}, {}, <<>>)

\* PeopleFinder._deduplicate
_deduplicate(people) == DedupLoop(people, 1, {}, {}, <<>>)

\* ------------------------------------------------------ scoring, selection
\* Person: a LinkedInPerson promoted past validation; priority_score is kept in
\* hundredths (0..100 for 0.0..1.0)
ToPerson(lp) ==
  [name |-> lp.name, title |-> lp.title, linkedin_url |-> lp.linkedin_url,
   priority_score |-> 0, priority_reason |-> "none"]

Min(a, b) == IF a <= b THEN a ELSE b
Max(a, b) == IF a >= b THEN a ELSE b

\* role.lower().split() for the role "Software Engineer Intern", less the
\* words the heuristic skips
RoleKeywords == { "software", "engineer" }

\* the score _heuristic_score gives one title, in hundredths
HeuristicOf(title) ==
  LET has  == TitleHas(title)
      base == IF has \cap { "university", "campus", "new grad", "early career" } # {} THEN 95
              ELSE IF has \cap { "recruiter", "talent acquisition" } # {} THEN 70
              ELSE IF "hiring manager" \in has THEN 80
              ELSE IF has \cap { "manager", "lead" } # {} THEN 60
              ELSE IF has \cap { "engineer", "developer" } # {} THEN 50
              ELSE 30
  IN  Min(100, base + 5 * Cardinality(RoleKeywords \cap has))

\* list.sort(key=priority_score, reverse=True): stable
RECURSIVE InsertDesc(_, _)
InsertDesc(sorted, x) ==
  IF sorted = <<>> THEN <<x>>
  ELSE IF sorted[1].priority_score >= x.priority_score
    THEN <<sorted[1]>> \o InsertDesc(Tail(sorted), x)
  ELSE <<x>> \o sorted

RECURSIVE SortDesc(_)
SortDesc(people) ==
  IF people = <<>> THEN <<>>
  ELSE InsertDesc(SortDesc(SubSeq(people, 1, Len(people) - 1)), people[Len(people)])

\* _heuristic_score(people, role)
_heuristic_score(people) ==
  SortDesc([i \in 1..Len(people) |->
              [people[i] EXCEPT !.priority_score = HeuristicOf(people[i].title),
                                !.priority_reason = "heuristic"]])

\* the entries of a scoring response: name, kind ("number", "missing" for an
\* entry without a score, "bad" for a value float() rejects), score, reason
EntryScore(entry) == IF entry.kind = "missing" THEN 50 ELSE entry.score

\* the raw score divided by 100 and stored as it is
ClampNone(raw) == raw

Clamp(raw) == Max(0, Min(100, raw))

\* the score_map loop raises on an entry that is not an object ("nondict")
ScoreMapRaises(scores) == \E i \in 1..Len(scores) : scores[i].kind = "nondict"

\* mutant: no score_map, every candidate is matched by position
ScoreEntryByPosition(scores, key) == 0

\* score_map: the last entry of each non-empty normalized name
ScoreEntryFor(scores, key) ==
  LET idx == { i \in 1..Len(scores) : Lower(Strip(scores[i].name)) # <<>>
                                      /\ Lower(Strip(scores[i].name)) = key }
  IN  IF idx = {} THEN 0 ELSE CHOOSE i \in idx : \A j \in idx : j <= i

\* people.index(person): the first element equal to it
IndexOf(people, person) ==
  CHOOSE i \in 1..Len(people) : people[i] = person /\ \A j \in 1..(i - 1) : people[j] # person

\* the matching loop of score_people from person k on, over the list as
\* mutated so far; raised when float() rejects the score of the entry used
RECURSIVE MatchLoop(_, _, _)
MatchLoop(people, scores, k) ==
  IF k > Len(people) THEN [raised |-> FALSE, people |-> people]
  ELSE LET person == people[k]
           byName == ScoreEntryFor(scores, Lower(Strip(person.name)))
           idx    == IndexOf(people, person)
           entry  == IF byName # 0 THEN byName
                     ELSE IF idx <= Len(scores) THEN idx ELSE 0
       IN  IF entry = 0 THEN MatchLoop(people, scores, k + 1)
           ELSE IF scores[entry].kind = "bad" THEN [raised |-> TRUE, people |-> people]
           ELSE MatchLoop([people EXCEPT ![k] =
                             [person EXCEPT !.priority_score = Clamp(EntryScore(scores[entry])),
                                            !.priority_reason = scores[entry].reason]],
                          scores, k + 1)

\* score_people(people, role, company): resp is what the reasoning service
\* does: kind "nokey" (no API key), "raise" (the call or the parse fails), or
\* "entries" with the list of entries it returns; any exception falls back to
\* the heuristic
score_people(people, resp) ==
  IF people = <<>> THEN <<>>
  ELSE IF resp.kind \in { "nokey", "raise" } THEN _heuristic_score(people)
  ELSE IF ScoreMapRaises(resp.scores) THEN _heuristic_score(people)
  ELSE IF MatchLoop(people, resp.scores, 1).raised THEN _heuristic_score(people)
  ELSE SortDesc(MatchLoop(people, resp.scores, 1).people)

\* categorize(title)
categorize(title) ==
  IF TitleHas(title) \cap { "recruit", "talent" } # {} THEN "recruiter"
  ELSE IF TitleHas(title) \cap { "manager", "lead" } # {} THEN "manager"
  ELSE "engineer"

TARGETS == [recruiter |-> 2, engineer |-> 3, manager |-> 1]

InSeq(x, s) == \E i \in 1..Len(s) : s[i] = x

\* the first loop of select_final_contacts: the category quotas
RECURSIVE QuotaLoop(_, _, _, _, _)
QuotaLoop(sorted, i, selected, categories, target) ==
  IF i > Len(sorted) THEN selected
  ELSE LET cat  == categorize(sorted[i].title)
           take == categories[cat] < TARGETS[cat]
           sel  == IF take THEN Append(selected, sorted[i]) ELSE selected
           cats == IF take THEN [categories EXCEPT ![cat] = @ + 1] ELSE categories
       IN  IF Len(sel) >= target THEN sel
           ELSE QuotaLoop(sorted, i + 1, sel, cats, target)

\* the second loop: fill up to target with the unselected, in score order
RECURSIVE FillLoop(_, _, _, _)
FillLoop(sorted, i, selected, target) ==
  IF i > Len(sorted) THEN selected
  ELSE IF ~InSeq(sorted[i], selected) /\ Len(selected) < target
    THEN FillLoop(sorted, i + 1, Append(selected, sorted[i]), target)
  ELSE FillLoop(sorted, i + 1, selected, target)

\* select_final_contacts(scored_people, target)
select_final_contacts(scored_people, target) ==
  LET sorted == SortDesc(scored_people)
      quota  == QuotaLoop(sorted, 1, <<>>, [recruiter |-> 0, engineer |-> 0, manager |-> 0], target)
  IN  FillLoop(sorted, 1, quota, target)

\* target_count=8 in run_search and run_more_leads
TargetCount == 8

\* ------------------------------------------------------------- retrieval
\* organic results of the search API: name and title are the two parts of the
\* result title ("name - title | LinkedIn"), link is the result URL; the chunk
\* "in/" stands for "linkedin.com/in/"
R_a == [name |-> <<"a">>, title |-> "Software Engineer", link |-> <<"in/", "u">>]
R_A == [name |-> <<"A">>, title |-> "Technical Recruiter", link |-> <<"in/", "v">>]
R_b == [name |-> <<"b">>, title |-> "Engineering Manager", link |-> <<"in/", "U", "/">>]
R_c == [name |-> <<"c">>, title |-> "Director of Engineering", link |-> <<"in/", "w">>]
R_d == [name |-> <<"d">>, title |-> "Sales Recruiter", link |-> <<"in/", "u", "/", "?", "q">>]
R_e == [name |-> <<"e">>, title |-> "Sales Associate", link |-> <<"in/", "x">>]
R_h == [name |-> <<"h">>, title |-> "Head of Recruiting", link |-> <<"in/", "z">>]
R_page == [name |-> <<"f">>, title |-> "Software Engineer", link |-> <<"co/", "x">>]
R_anon == [name |-> <<" ">>, title |-> "Software Engineer", link |-> <<"in/", "y">>]

\* _parse_linkedin_from_serper(result): <<>> for None, else the one candidate
_parse_linkedin_from_serper(result) ==
  IF ~HasChar(Strip(result.link), "in/") THEN <<>>
  ELSE IF Strip(result.name) = <<>> THEN <<>>
  ELSE << [name |-> Strip(result.name), title |-> result.title,
           linkedin_url |-> Strip(result.link)] >>

\* what one search(query) call does: kind "fail" (no key, transport or HTTP
\* error, undecodable body: caught, []), "malformed" (a decoded body that is
\* not an object: data.get raises outside the try), or "ok" with the organic
\* results
QueryOutcomes ==
  { [kind |-> "fail", results |-> <<>>], [kind |-> "malformed", results |-> <<>>] }
  \cup [kind : { "ok" },
        results : { <<>>, <<R_a, R_b>>, <<R_A, R_page, R_d>>, <<R_c, R_anon, R_e, R_h>> }]

\* the five queries of _serper_queries
NumQueries == 5

ResultsOf(outcome) == IF outcome.kind = "ok" THEN outcome.results ELSE <<>>

RECURSIVE ParseAll(_, _)
ParseAll(outcomes, q) ==
  IF q > Len(outcomes) THEN <<>>
  ELSE LET results == ResultsOf(outcomes[q])
           parsed[i \in 0..Len(results)] ==
             IF i = 0 THEN <<>>
             ELSE parsed[i - 1] \o _parse_linkedin_from_serper(results[i])
       IN  parsed[Len(results)] \o ParseAll(outcomes, q + 1)

\* search_serper_wide: gather the queries (the first exception propagates),
\* parse, deduplicate
search_serper_wide(outcomes) ==
  IF \E q \in 1..Len(outcomes) : outcomes[q].kind = "malformed"
    THEN [raised |-> TRUE, people |-> <<>>]
  ELSE [raised |-> FALSE, people |-> _deduplicate(ParseAll(outcomes, 1))]

\* what one browser search does: kind "fail" (run_task unsuccessful or output
\* unparseable: []), or "ok" with the candidates parsed from the agent's JSON
BP(r) == [name |-> r.name, title |-> r.title, linkedin_url |-> r.link]

BrowserOutcomes ==
  { [kind |-> "fail", results |-> <<>>] }
  \cup [kind : { "ok" },
        results : { <<>>, <<BP(R_a)>>, <<BP(R_A), BP(R_b)>>,
                    <<BP(R_d), BP(R_c), BP(R_anon), BP(R_h)>> }]

\* the interleave loop of _find_people_browser
RECURSIVE Interleave(_, _, _)
Interleave(recruiter_results, engineer_results, i) ==
  IF i > Max(Len(recruiter_results), Len(engineer_results)) THEN <<>>
  ELSE (IF i <= Len(recruiter_results) THEN <<recruiter_results[i]>> ELSE <<>>)
       \o (IF i <= Len(engineer_results) THEN <<engineer_results[i]>> ELSE <<>>)
       \o Interleave(recruiter_results, engineer_results, i + 1)

\* the exclude set find_people builds from exclude_linkedin_urls
NormalizeExclude(exclude_linkedin_urls) ==
  { _normalize_linkedin_url(u) : u \in exclude_linkedin_urls } \ { <<>> }

KeepAt(people, keep) ==
  LET kept[i \in 0..Len(people)] ==
        IF i = 0 THEN <<>>
        ELSE IF keep[i] THEN Append(kept[i - 1], people[i]) ELSE kept[i - 1]
  IN  kept[Len(people)]

\* the exclusion comprehension (skipped when the set is empty)
ExcludeExisting(all_people, exclude_urls) ==
  IF exclude_urls = {} THEN all_people
  ELSE KeepAt(all_people,
              [i \in 1..Len(all_people) |->
                 _normalize_linkedin_url(all_people[i].linkedin_url) \notin exclude_urls])

HardFilterAll(all_people) ==
  KeepAt(all_people, [i \in 1..Len(all_people) |-> hard_filter(all_people[i])])

\* the answers of the validation service for n candidates; without an API key
\* every candidate is kept ("skip")
Verdicts(n, has_key) ==
  IF has_key THEN [1..n -> { "yes", "no", "error" }] ELSE { [i \in 1..n |-> "skip"] }

\* the filter keeping a candidate only on an answer of yes (or without a key)
_filter_valid_people_fail_closed(people, verdicts) ==
  KeepAt(people, [i \in 1..Len(people) |-> verdicts[i] \in { "yes", "skip" }])

\* _validate_person_works_at_company: keep on yes, on error, and without a key
_filter_valid_people(people, verdicts) ==
  KeepAt(people, [i \in 1..Len(people) |-> verdicts[i] # "no"])

ToPeople(all_people) == [i \in 1..Len(all_people) |-> ToPerson(all_people[i])]

\* the scoring responses explored for a list of people: the service's entries
\* in input order under three score patterns, or a failure
ScoreResponses(people, has_key) ==
  IF ~has_key THEN { [kind |-> "nokey", scores |-> <<>>] }
  ELSE { [kind |-> "raise", scores |-> <<>>] } \cup
       { [kind |-> "entries",
          scores |-> [i \in 1..Len(people) |->
                        [name |-> people[i].name, kind |-> "number", score |-> f[i],
                         reason |-> "llm"]]] :
         f \in { [i \in 1..Len(people) |-> 90],
                 [i \in 1..Len(people) |-> 10 * i],
                 [i \in 1..Len(people) |-> 120 - 30 * i] } }

\* ------------------------------------------------------- domain discovery
NoDomain == <<>>                       \* None / "" (no website, no result yet)

Companies == { <<"Acme">>, <<"acme", " ">>, <<"Stripe">> }

\* what a caller may pass as explicit_website
Websites ==
  { NoDomain,
    <<"https://", "acme.io">>,
    <<"https://", "www.", "Acme.io", "/", "about">>,
    <<"acme.io">>,
    <<"https://", "stripe.dev">> }

\* an excerpt of _KNOWN_DOMAINS
_KNOWN_DOMAINS == [n \in { <<"stripe">> } |-> <<"stripe.com">>]

\* hosts of the URLs a web search for "<company> official company website" returns
SearchHosts == { "linkedin.com", "acme.io", "getacme.com" }
\* any(s in domain for s in skip)
InSkip(host) == host \in { "linkedin.com" }
\* any(kw in domain for kw in company_keywords), the keyword of these companies being "acme"
HasKeyword(host) == host \in { "acme.io", "getacme.com" }

\* what the search call comes back with: an exception, or a list of hosts
SearchOutcomes ==
  { <<"raise">> } \cup { <<h>> : h \in SearchHosts }
                  \cup { <<h1, h2>> : h1 \in SearchHosts, h2 \in SearchHosts }

\* company.strip().lower().replace(" ", "")
NormalizedCompany(company) == SelectSeq(Lower(Strip(company)), LAMBDA t : t # " ")

\* the claim's normalized organization name: trimmed, case-insensitive
OrgName(company) == Lower(Strip(company))

IsScheme(t) == t \in { "http://", "https://" }

\* [^/]+ from position i: the chunks up to the next "/" (possibly none)
RECURSIVE NotSlashRun(_, _)
NotSlashRun(w, i) ==
  IF i > Len(w) \/ w[i] = "/" THEN <<>> ELSE <<w[i]>> \o NotSlashRun(w, i + 1)

\* group(1) of https?://(?:www\.)?([^/]+) matched at position i, or <<>>: the
\* optional www. is consumed when something follows it, and given back otherwise
MatchAt(w, i) ==
  IF ~IsScheme(w[i]) THEN <<>>
  ELSE IF i + 1 <= Len(w) /\ w[i + 1] = "www." /\ NotSlashRun(w, i + 2) # <<>>
    THEN NotSlashRun(w, i + 2)
  ELSE NotSlashRun(w, i + 1)

\* re.search(...).group(1), or <<>> when nothing matches
RECURSIVE SearchFrom(_, _)
SearchFrom(w, i) ==
  IF i > Len(w) THEN <<>>
  ELSE IF MatchAt(w, i) # <<>> THEN MatchAt(w, i)
  ELSE SearchFrom(w, i + 1)

WebsiteDomain(website) == Lower(SearchFrom(website, 1))

\* get_company_domain: the known table, the cache, or the slug + ".com"
get_company_domain(company, cache) ==
  IF NormalizedCompany(company) \in DOMAIN _KNOWN_DOMAINS
    THEN _KNOWN_DOMAINS[NormalizedCompany(company)]
  ELSE IF company \in DOMAIN cache THEN cache[company]
  ELSE NormalizedCompany(company) \o <<".com">>

\* the domain picked from the search results, or <<>> for "No usable domains"
PickDomain(hosts) ==
  LET candidates == SelectSeq(hosts, LAMBDA h : ~InSkip(h))
      keyed      == SelectSeq(candidates, HasKeyword)
  IN  IF candidates = <<>> THEN <<>>
      ELSE IF keyed # <<>> THEN <<keyed[1]>>
      ELSE <<candidates[1]>>

\* cache[company] = domain
CachePut(cache, company, domain) ==
  [k \in DOMAIN cache \cup {company} |-> IF k = company THEN domain ELSE cache[k]]

\* ------------------------------------------------------ email resolution
\* Names are made of the letters a b u v i in either case, ".", ",", " " and
\* "#", which stands for a letter outside a-z.  An address is its local part,
\* character by character, then "@", then the domain as one chunk.
IsAlpha(c) == c \in { "a", "b", "u", "v", "i" }

\* re.sub(r"\s+", " ", name)
RECURSIVE CollapseSpaces(_)
CollapseSpaces(s) ==
  IF Len(s) < 2 THEN s
  ELSE IF s[1] = " " /\ s[2] = " " THEN CollapseSpaces(Tail(s))
  ELSE <<s[1]>> \o CollapseSpaces(Tail(s))

\* name.replace(pat, "")
RECURSIVE RemoveAll(_, _)
RemoveAll(s, pat) ==
  IF Len(s) < Len(pat) THEN s
  ELSE IF SubSeq(s, 1, Len(pat)) = pat THEN RemoveAll(SubSeq(s, Len(pat) + 1, Len(s)), pat)
  ELSE <<s[1]>> \o RemoveAll(Tail(s), pat)

\* the suffixes parse_name removes that can be spelled with the letters of
\* the model, in the order of the code: " III", " II", " IV"
NameSuffixes == << <<" ", "I", "I", "I">>, <<" ", "I", "I">>, <<" ", "I", "V">> >>

RECURSIVE RemoveSuffixes(_, _)
RemoveSuffixes(name, k) ==
  IF k > Len(NameSuffixes) THEN name
  ELSE RemoveSuffixes(RemoveAll(name, NameSuffixes[k]), k + 1)

\* str.split(): the words of s after the word begun in word
RECURSIVE SplitWords(_, _)
SplitWords(s, word) ==
  IF s = <<>> THEN (IF word = <<>> THEN <<>> ELSE <<word>>)
  ELSE IF s[1] = " "
    THEN (IF word = <<>> THEN <<>> ELSE <<word>>) \o SplitWords(Tail(s), <<>>)
  ELSE SplitWords(Tail(s), Append(word, s[1]))

\* re.sub(r"[^a-z]", "", s)
OnlyAlpha(s) == SelectSeq(s, IsAlpha)

\* s.replace(",", "")
NoCommas(s) == SelectSeq(s, LAMBDA c : c # ",")

\* parse_name(full_name): (first, last)
parse_name(full_name) ==
  LET name  == RemoveSuffixes(CollapseSpaces(Strip(full_name)), 1)
      parts == SplitWords(name, <<>>)
  IN  IF Len(parts) = 0 THEN [first |-> <<>>, last |-> <<>>]
      ELSE IF Len(parts) = 1 THEN [first |-> Lower(parts[1]), last |-> <<>>]
      ELSE IF HasChar(parts[1], ",")
        THEN [first |-> OnlyAlpha(Lower(parts[2])),
              last  |-> OnlyAlpha(Lower(NoCommas(parts[1])))]
      ELSE [first |-> OnlyAlpha(Lower(parts[1])),
            last  |-> OnlyAlpha(Lower(parts[Len(parts)]))]

\* f"{local}@{domain}"
At(local, domain) == local \o <<"@", domain>>

\* generate_email_patterns(first, last, domain)
generate_email_patterns(first, last, domain) ==
  IF first = <<>> \/ domain = "" THEN <<>>
  ELSE IF last # <<>>
    THEN << At(first \o <<".">> \o last, domain),
            At(first \o last, domain),
            At(<<first[1]>> \o last, domain),
            At(first, domain),
            At(first \o <<"_">> \o last, domain),
            At(<<first[1], ".">> \o last, domain),
            At(last \o <<".">> \o first, domain),
            At(Append(first, last[1]), domain) >>
  ELSE << At(first, domain) >>

\* p.split("@")[0]
RECURSIVE LocalPart(_)
LocalPart(p) ==
  IF p = <<>> \/ p[1] = "@" THEN <<>> ELSE <<p[1]>> \o LocalPart(Tail(p))

\* what discover_company_email_pattern returns: "none" for None, or one of
\* the formats _infer_pattern_from_emails names
DetectedPatterns == { "none", "first.last", "first_last", "firstlast", "flast" }

\* format_map[detected_format](p)
FormatMatches(detected_format, p) ==
  LET lp == LocalPart(p)
  IN  CASE detected_format = "first.last" -> HasChar(lp, ".") /\ ~HasChar(lp, "_")
        [] detected_format = "first_last" -> HasChar(lp, "_")
        [] detected_format = "firstlast" -> ~HasChar(lp, ".") /\ ~HasChar(lp, "_") /\ Len(lp) > 5
        [] detected_format = "flast" -> Len(lp) <= 6 /\ ~HasChar(lp, ".")
        [] OTHER -> FALSE

\* reorder_patterns_by_detected(patterns, detected_format)
reorder_patterns_by_detected(patterns, detected_format) ==
  IF detected_format \notin { "first.last", "first_last", "firstlast", "flast" } THEN patterns
  ELSE SelectSeq(patterns, LAMBDA p : FormatMatches(detected_format, p))
       \o SelectSeq(patterns, LAMBDA p : ~FormatMatches(detected_format, p))

\* patterns[:2] and patterns[1:3]
FirstTwo(patterns) == SubSeq(patterns, 1, Min(2, Len(patterns)))
NextTwo(patterns) == SubSeq(patterns, 2, Min(3, Len(patterns)))

EmailResult(name, email, confidence, source, alternative_emails) ==
  [name |-> name, email |-> email, confidence |-> confidence, source |-> source,
   alternative_emails |-> alternative_emails]

\* is_engineer in _find_email_for_person
is_engineer(title) ==
  TitleHas(title) \cap { "engineer", "developer", "software", "sre", "devops", "staff",
                         "principal" } # {}

\* a pattern address always got the lowest confidence
PatternConfidenceLow(detected_pattern) == "LOW"

\* the confidence of a pattern address
PatternConfidence(detected_pattern) == IF detected_pattern # "none" THEN "MEDIUM" ELSE "LOW"

\* _find_email_for_person(person, domain, detected_pattern); github is what
\* find_github_email returns if it is called: found is FALSE for None
_find_email_for_person(person, domain, detected_pattern, github) ==
  LET pn       == parse_name(person.name)
      patterns == generate_email_patterns(pn.first, pn.last, domain)
      ordered  == reorder_patterns_by_detected(patterns, detected_pattern)
  IN  IF pn.first = <<>>
        THEN EmailResult(person.name, <<>>, "LOW", "Could not parse name", <<>>)
      ELSE IF is_engineer(person.title) /\ github.found /\ github.email # <<>>
        THEN EmailResult(person.name, github.email, "HIGH", "GitHub public profile",
                         FirstTwo(patterns))
      ELSE IF ordered = <<>>
        THEN EmailResult(person.name, <<>>, "LOW", "Could not generate patterns", <<>>)
      ELSE EmailResult(person.name, ordered[1], PatternConfidence(detected_pattern),
                       IF detected_pattern # "none" THEN "Pattern match" ELSE "Pattern guess",
                       NextTwo(ordered))

\* the record find_emails builds for a contact whose task raised
FallbackResult(person, domain) ==
  LET pn       == parse_name(person.name)
      patterns == generate_email_patterns(pn.first, pn.last, domain)
  IN  EmailResult(person.name, IF patterns # <<>> THEN patterns[1] ELSE <<>>, "LOW",
                  "Pattern guess (fallback after error)", NextTwo(patterns))

\* the result loop without the fallback: a raised task's contact is left out
ResultLoopDropsRaised(people, tasks, domain) ==
  KeepAt([i \in 1..Len(people) |-> tasks[i].result],
         [i \in 1..Len(people) |-> tasks[i].kind = "returned"])

\* the result loop of find_emails over what gather returned, in task order
ResultLoop(people, tasks, domain) ==
  [i \in 1..Len(people) |->
     IF tasks[i].kind = "returned" THEN tasks[i].result
     ELSE FallbackResult(people[i], domain)]

\* the domain the tasks get when the MX check fails: none
DomainDroppedWithoutMx(domain, has_mx) == IF has_mx THEN domain ELSE ""

\* has_mx = await check_mx_record(domain): a missing record is logged and the
\* domain is used all the same
DomainAfterMx(domain, has_mx) == domain

\* ------------------------------------------------------------ job objects
\* SearchResult objects live in a heap: objs maps an object id to its fields,
\* whose list fields hold ids into lists, so that a shallow copy shares the
\* lists of its original; store is the object the job store holds
NoObj == 0

Put(f, k, v) == [x \in DOMAIN f \cup { k } |-> IF x = k THEN v ELSE f[x]]

FreshId(used) ==
  CHOOSE i \in 1..(Cardinality(used) + 1) : i \notin used /\ \A j \in 1..(i - 1) : j \in used

EmptyHeap == [objs |-> <<>>, lists |-> <<>>, store |-> NoObj]

\* SearchResult(...): a new object owning four new lists
NewResult(h, status, error, company_context, people, email_results, email_drafts, activity_log) ==
  LET used == DOMAIN h.lists
      l1   == FreshId(used)
      l2   == FreshId(used \cup { l1 })
      l3   == FreshId(used \cup { l1, l2 })
      l4   == FreshId(used \cup { l1, l2, l3 })
      id   == FreshId(DOMAIN h.objs)
  IN  [h  |-> [objs  |-> Put(h.objs, id,
                             [status |-> status, error |-> error,
                              company_context |-> company_context,
                              people |-> l1, email_results |-> l2,
                              email_drafts |-> l3, activity_log |-> l4]),
               lists |-> Put(Put(Put(Put(h.lists, l1, people), l2, email_results),
                                 l3, email_drafts), l4, activity_log),
               store |-> h.store],
       id |-> id]

\* result.model_copy(): a new object with the same field values, lists shared
model_copy(h, src) ==
  LET id == FreshId(DOMAIN h.objs)
  IN  [h |-> [h EXCEPT !.objs = Put(@, id, h.objs[src])], id |-> id]

\* _deserialize(_serialize(result)): a new object with lists of its own
Deserialize(h, src) ==
  LET o == h.objs[src]
  IN  NewResult(h, o.status, o.error, o.company_context, h.lists[o.people],
                h.lists[o.email_results], h.lists[o.email_drafts],
                h.lists[o.activity_log])

\* the ids of a sequence in order of first occurrence, NoObj left out
RECURSIVE Distinct(_)
Distinct(ids) ==
  IF ids = <<>> THEN <<>>
  ELSE LET front == Distinct(SubSeq(ids, 1, Len(ids) - 1))
           last  == ids[Len(ids)]
       IN  IF last = NoObj \/ \E i \in 1..Len(front) : front[i] = last THEN front
           ELSE Append(front, last)

PosOf(order, id) == CHOOSE i \in 1..Len(order) : order[i] = id

RECURSIVE ListIdsOf(_, _)
ListIdsOf(h, order) ==
  IF order = <<>> THEN <<>>
  ELSE LET o == h.objs[order[1]]
       IN  <<o.people, o.email_results, o.email_drafts, o.activity_log>>
           \o ListIdsOf(h, Tail(order))

\* the objects the store and the tasks (roots, in a fixed order) refer to
ObjOrder(h, roots) == Distinct(<<h.store>> \o roots)

\* garbage collection: objects nothing refers to and the lists only they held
\* are dropped, the rest renumbered in order of reference
Collect(h, roots) ==
  LET order     == ObjOrder(h, roots)
      listOrder == Distinct(ListIdsOf(h, order))
  IN  [objs  |-> [i \in 1..Len(order) |->
                    LET o == h.objs[order[i]]
                    IN  [o EXCEPT !.people = PosOf(listOrder, o.people),
                                  !.email_results = PosOf(listOrder, o.email_results),
                                  !.email_drafts = PosOf(listOrder, o.email_drafts),
                                  !.activity_log = PosOf(listOrder, o.activity_log)]],
       lists |-> [i \in 1..Len(listOrder) |-> h.lists[listOrder[i]]],
       store |-> PosOf(order, h.store)]

ListOf(h, id, field) == h.lists[h.objs[id][field]]

SetField(h, id, field, value) == [h EXCEPT !.objs[id] = [@ EXCEPT ![field] = value]]

\* result.<field> = value, for a list field: the field refers to a new list
AssignList(h, id, field, value) ==
  LET l == FreshId(DOMAIN h.lists)
  IN  [h EXCEPT !.lists = Put(@, l, value), !.objs[id] = [@ EXCEPT ![field] = l]]

\* result.<field>.extend(more) and .append: the list is changed in place
ExtendList(h, id, field, more) ==
  [h EXCEPT !.lists[h.objs[id][field]] = @ \o more]

_log_entry(message, entry_type) == [message |-> message, type |-> entry_type]

\* ==================================================================== state
VARIABLES
  d_people,    \* the list handed to _deduplicate
  d_unique,    \* its result
  d_again,     \* the result of a second pass over d_unique
  d_pc,        \* "build" | "once" | "twice"
  \* discover_company_domain, called by the tasks of one process
  dc_cache,    \* _domain_cache: raw company string -> domain
  dc_pc,       \* per caller: "idle" | "searching" (awaiting the search) | "done"
  dc_company,  \* per caller: the company argument
  dc_website,  \* per caller: the explicit_website argument (NoDomain: none)
  dc_result,   \* per caller: the returned domain
  dc_searched, \* per caller: an external search was issued by this call
  dc_prior,    \* per caller: the domain last produced for the same organization
               \* name by a call that had returned when this call began
  dc_produced, \* organization name -> the domain last returned for it
  dc_first,    \* per caller: company and domain of the first call it completed
               \* (the find_emails call of the job's run_search)
  dc_calls,    \* calls begun so far
  \* one find_people call
  f_pc,         \* "start" | "linkedin" | "validate" | "score" | "done"
  f_serper,     \* settings.serper_api_key is set
  f_openai,     \* settings.openai_api_key is set
  f_exclude_in, \* the exclude_linkedin_urls argument
  f_outcomes,   \* what each search of the call did, in call order
  f_deduped,    \* the list _deduplicate returned
  f_all,        \* all_people at the current stage
  f_final,      \* the returned list
  f_outcome,    \* "pending" | "returned" | "raised"
  f_searches,   \* the searches the call made, in order: "serper" (the five
                \* queries), "google" (the two browser searches), "linkedin"
  \* one job: its search task, two more-leads tasks, one generate and one
  \* edit request
  j_mongo,      \* get_db() is not None
  j_h,          \* the heap of SearchResult objects and the job store
  j_pc,         \* per task: its position
  j_ref,        \* per task: the object its result/current variable refers to
  j_found,      \* what run_search's find_people call did
  j_emails,     \* what run_search's find_emails call did ("none": not called)
  j_research,   \* what run_search's research_company call did
  j_exclude,    \* per more-leads task: exclude_urls
  j_new,        \* per more-leads task: new_people
  j_before,     \* per more-leads task: result.people when run_more_leads began
  j_name,       \* per request: the contact name of the payload
  \* one score_people call
  s_pc,         \* "off" | "build" | "done"
  s_people,     \* the people argument
  s_resp,       \* what the reasoning service does
  s_scored,     \* the returned list
  \* one select_final_contacts call
  sel_pc,       \* "off" | "build" | "done"
  sel_pool,     \* the scored_people argument
  sel_out,      \* the returned list
  sel_target,   \* the target argument
  \* one _filter_valid_people call
  v_pc,         \* "off" | "build" | "running" | "done"
  v_people,     \* the people argument
  v_key,        \* settings.openai_api_key is set
  v_answer,     \* per candidate: "pending", or what its check did
  v_calls,      \* per candidate: requests sent to the validation service
  v_order,      \* the candidates' positions in the order their checks ended
  v_out,        \* the returned list
  \* one find_emails call
  e_pc,         \* "off" | "build" | "running" | "done"
  e_people,     \* the people argument
  e_mx,         \* what check_mx_record returned
  e_domain,     \* the domain handed to the per-contact tasks
  e_detected,   \* detected_pattern
  e_task,       \* per contact: its task ("pending", "returned", "raised"), what
                \* find_github_email gave it and the EmailResult it returned
  e_results     \* the returned list

dedupVars == <<d_people, d_unique, d_again, d_pc>>
domainVars == <<dc_cache, dc_pc, dc_company, dc_website, dc_result, dc_searched,
                dc_prior, dc_produced, dc_first, dc_calls>>

findVars == <<f_pc, f_serper, f_openai, f_exclude_in, f_outcomes, f_deduped, f_all,
              f_final, f_outcome, f_searches>>

jobVars == <<j_mongo, j_h, j_pc, j_ref, j_found, j_emails, j_research, j_exclude,
             j_new, j_before, j_name>>

scoreVars == <<s_pc, s_people, s_resp, s_scored>>

selectVars == <<sel_pc, sel_pool, sel_out, sel_target>>

validateVars == <<v_pc, v_people, v_key, v_answer, v_calls, v_order, v_out>>

emailVars == <<e_pc, e_people, e_mx, e_domain, e_detected, e_task, e_results>>

vars == <<dedupVars, domainVars, findVars, jobVars, scoreVars, selectVars, validateVars,
          emailVars>>

\* what the steps of one part of the program leave alone
notDedupVars == <<domainVars, findVars, jobVars, scoreVars, selectVars, validateVars, emailVars>>
notDomainVars == <<dedupVars, findVars, jobVars, scoreVars, selectVars, validateVars, emailVars>>
notFindVars == <<dedupVars, domainVars, jobVars, scoreVars, selectVars, validateVars, emailVars>>
notJobVars == <<dedupVars, domainVars, findVars, scoreVars, selectVars, validateVars, emailVars>>
notEmailVars == <<dedupVars, domainVars, findVars, jobVars, scoreVars, selectVars, validateVars>>
notValidateVars == <<dedupVars, domainVars, findVars, jobVars, scoreVars, selectVars, emailVars>>
notSelectVars == <<dedupVars, domainVars, findVars, jobVars, scoreVars, validateVars, emailVars>>
notScoreVars == <<dedupVars, domainVars, findVars, jobVars, selectVars, validateVars, emailVars>>

MoreLeadsTasks == { "m1" }
Requests == { "gen", "edit" }
Tasks == { "search" } \cup MoreLeadsTasks \cup Requests
TaskOrder == <<"search", "m1", "gen", "edit">>

\* the tasks of the process that call discover_company_domain (two pipeline
\* runs in flight at once)
Callers == { "t1", "t2" }
NoCall == [company |-> <<>>, domain |-> NoDomain]
OrgNames == { OrgName(c) : c \in Companies }

DedupIdle ==
  /\ d_people = <<>>
  /\ d_unique = <<>>
  /\ d_again = <<>>
  /\ d_pc = "off"

DomainIdle ==
  /\ dc_cache = <<>>
  /\ dc_pc = [c \in Callers |-> "off"]
  /\ dc_company = [c \in Callers |-> <<>>]
  /\ dc_website = [c \in Callers |-> NoDomain]
  /\ dc_result = [c \in Callers |-> NoDomain]
  /\ dc_searched = [c \in Callers |-> FALSE]
  /\ dc_prior = [c \in Callers |-> NoDomain]
  /\ dc_produced = [n \in OrgNames |-> NoDomain]
  /\ dc_first = [c \in Callers |-> NoCall]
  /\ dc_calls = 0

FindIdle ==
  /\ f_pc = "off"
  /\ f_serper = FALSE
  /\ f_openai = FALSE
  /\ f_exclude_in = {}
  /\ f_outcomes = <<>>
  /\ f_deduped = <<>>
  /\ f_all = <<>>
  /\ f_final = <<>>
  /\ f_outcome = "pending"
  /\ f_searches = <<>>

JobIdle ==
  /\ j_mongo = FALSE
  /\ j_h = EmptyHeap
  /\ j_pc = [t \in Tasks |-> "off"]
  /\ j_ref = [t \in Tasks |-> NoObj]
  /\ j_found = [kind |-> "pending", people |-> <<>>]
  /\ j_emails = "none"
  /\ j_research = "none"
  /\ j_exclude = [m \in MoreLeadsTasks |-> {}]
  /\ j_new = [m \in MoreLeadsTasks |-> <<>>]
  /\ j_before = [m \in MoreLeadsTasks |-> <<>>]
  /\ j_name = [r \in Requests |-> <<>>]

ScoreIdle ==
  /\ s_pc = "off"
  /\ s_people = <<>>
  /\ s_resp = [kind |-> "nokey", scores |-> <<>>]
  /\ s_scored = <<>>

SelectIdle ==
  /\ sel_pc = "off"
  /\ sel_target = 0
  /\ sel_pool = <<>>
  /\ sel_out = <<>>

ValidateIdle ==
  /\ v_pc = "off"
  /\ v_people = <<>>
  /\ v_key = FALSE
  /\ v_answer = <<>>
  /\ v_calls = <<>>
  /\ v_order = <<>>
  /\ v_out = <<>>

EmailIdle ==
  /\ e_pc = "off"
  /\ e_people = <<>>
  /\ e_mx = FALSE
  /\ e_domain = ""
  /\ e_detected = "none"
  /\ e_task = <<>>
  /\ e_results = <<>>

NotDedupIdle == DomainIdle /\ FindIdle /\ JobIdle /\ ScoreIdle /\ SelectIdle /\ ValidateIdle /\ EmailIdle
NotDomainIdle == DedupIdle /\ FindIdle /\ JobIdle /\ ScoreIdle /\ SelectIdle /\ ValidateIdle /\ EmailIdle
NotFindIdle == DedupIdle /\ DomainIdle /\ JobIdle /\ ScoreIdle /\ SelectIdle /\ ValidateIdle /\ EmailIdle
NotJobIdle == DedupIdle /\ DomainIdle /\ FindIdle /\ ScoreIdle /\ SelectIdle /\ ValidateIdle /\ EmailIdle
NotEmailIdle == DedupIdle /\ DomainIdle /\ FindIdle /\ JobIdle /\ ScoreIdle /\ SelectIdle /\ ValidateIdle
NotValidateIdle == DedupIdle /\ DomainIdle /\ FindIdle /\ JobIdle /\ ScoreIdle /\ SelectIdle /\ EmailIdle
NotSelectIdle == DedupIdle /\ DomainIdle /\ FindIdle /\ JobIdle /\ ScoreIdle /\ ValidateIdle /\ EmailIdle
NotScoreIdle == DedupIdle /\ DomainIdle /\ FindIdle /\ JobIdle /\ SelectIdle /\ ValidateIdle /\ EmailIdle

\* --------------------------------------------------- specification: dedup
DedupInit ==
  /\ d_people = <<>>
  /\ d_unique = <<>>
  /\ d_again = <<>>
  /\ d_pc = "build"
  /\ NotDedupIdle

\* the retrieval stage hands over one more raw candidate
DedupAdd ==
  /\ d_pc = "build"
  /\ Len(d_people) < MaxLen
  /\ \E p \in { q \in LinkedInPerson : q.title = "Software Engineer" } :
       d_people' = Append(d_people, p)
  /\ UNCHANGED <<d_unique, d_again, d_pc>>
  /\ UNCHANGED notDedupVars

\* unique = self._deduplicate(raw)
DedupCall ==
  /\ d_pc = "build"
  /\ d_unique' = _deduplicate(d_people)
  /\ d_pc' = "once"
  /\ UNCHANGED <<d_people, d_again>>
  /\ UNCHANGED notDedupVars

\* a second pass over the first pass's output
DedupCallAgain ==
  /\ d_pc = "once"
  /\ d_again' = _deduplicate(d_unique)
  /\ d_pc' = "twice"
  /\ UNCHANGED <<d_people, d_unique>>
  /\ UNCHANGED notDedupVars

DedupNext == DedupAdd \/ DedupCall \/ DedupCallAgain

SpecDedup == DedupInit /\ [][DedupNext]_vars


\* ------------------------------------- specification: domain discovery
DomainInit ==
  /\ dc_cache = <<>>
  /\ dc_pc = [c \in Callers |-> "idle"]
  /\ dc_company = [c \in Callers |-> <<>>]
  /\ dc_website = [c \in Callers |-> NoDomain]
  /\ dc_result = [c \in Callers |-> NoDomain]
  /\ dc_searched = [c \in Callers |-> FALSE]
  /\ dc_prior = [c \in Callers |-> NoDomain]
  /\ dc_produced = [n \in OrgNames |-> NoDomain]
  /\ dc_first = [c \in Callers |-> NoCall]
  /\ dc_calls = 0
  /\ NotDomainIdle

\* a call begins: its arguments, and what earlier calls produced for the name
Begin(c, company, website) ==
  /\ dc_pc[c] = "idle"
  /\ dc_calls < MaxCalls
  /\ dc_calls' = dc_calls + 1
  /\ dc_company' = [dc_company EXCEPT ![c] = company]
  /\ dc_website' = [dc_website EXCEPT ![c] = website]
  /\ dc_prior' = [dc_prior EXCEPT ![c] = dc_produced[OrgName(company)]]

\* a call returns domain
Return(c, company, domain) ==
  /\ dc_pc' = [dc_pc EXCEPT ![c] = "done"]
  /\ dc_result' = [dc_result EXCEPT ![c] = domain]
  /\ dc_produced' = [dc_produced EXCEPT ![OrgName(company)] = domain]
  /\ UNCHANGED dc_first

\* discover_company_domain, lines 98-104: the user-supplied website is used
DiscoverWebsite(c) ==
  \E company \in Companies, website \in Websites :
    /\ Begin(c, company, website)
    /\ website # NoDomain
    /\ WebsiteDomain(website) # <<>>
    /\ dc_cache' = CachePut(dc_cache, company, WebsiteDomain(website))
    /\ dc_searched' = [dc_searched EXCEPT ![c] = FALSE]
    /\ Return(c, company, WebsiteDomain(website))
    /\ UNCHANGED notDomainVars

\* lines 106-110: no usable website, the company is in the known table
DiscoverKnown(c) ==
  \E company \in Companies, website \in Websites :
    /\ Begin(c, company, website)
    /\ website = NoDomain \/ WebsiteDomain(website) = <<>>
    /\ NormalizedCompany(company) \in DOMAIN _KNOWN_DOMAINS
    /\ dc_searched' = [dc_searched EXCEPT ![c] = FALSE]
    /\ Return(c, company, _KNOWN_DOMAINS[NormalizedCompany(company)])
    /\ UNCHANGED <<dc_cache, notDomainVars>>

\* lines 112-114: the company string is a key of the cache
DiscoverCached(c) ==
  \E company \in Companies, website \in Websites :
    /\ Begin(c, company, website)
    /\ website = NoDomain \/ WebsiteDomain(website) = <<>>
    /\ NormalizedCompany(company) \notin DOMAIN _KNOWN_DOMAINS
    /\ company \in DOMAIN dc_cache
    /\ dc_searched' = [dc_searched EXCEPT ![c] = FALSE]
    /\ Return(c, company, dc_cache[company])
    /\ UNCHANGED <<dc_cache, notDomainVars>>

\* lines 116-122: the search is issued and the call waits for it
DiscoverSearch(c) ==
  \E company \in Companies, website \in Websites :
    /\ Begin(c, company, website)
    /\ website = NoDomain \/ WebsiteDomain(website) = <<>>
    /\ NormalizedCompany(company) \notin DOMAIN _KNOWN_DOMAINS
    /\ company \notin DOMAIN dc_cache
    /\ dc_searched' = [dc_searched EXCEPT ![c] = TRUE]
    /\ dc_pc' = [dc_pc EXCEPT ![c] = "searching"]
    /\ UNCHANGED <<dc_cache, dc_result, dc_produced, dc_first, notDomainVars>>

\* lines 124-178: the search has come back (or raised); a domain is picked from
\* its hosts, or the fallback is used; either is written to the cache
DiscoverSearchDone(c) ==
  \E outcome \in SearchOutcomes :
    /\ dc_pc[c] = "searching"
    /\ LET picked == IF outcome = <<"raise">> THEN <<>> ELSE PickDomain(outcome)
           domain == IF picked # <<>> THEN picked
                     ELSE get_company_domain(dc_company[c], dc_cache)
       IN  /\ dc_cache' = CachePut(dc_cache, dc_company[c], domain)
           /\ Return(c, dc_company[c], domain)
    /\ UNCHANGED <<dc_company, dc_website, dc_searched, dc_prior, dc_calls, notDomainVars>>

\* the caller takes the result; the task may call again (run_more_leads
\* calls find_emails for the company of the job's run_search)
DiscoverTaken(c) ==
  /\ dc_pc[c] = "done"
  /\ dc_first' = IF dc_first[c] # NoCall THEN dc_first
                 ELSE [dc_first EXCEPT ![c] = [company |-> dc_company[c], domain |-> dc_result[c]]]
  /\ dc_pc' = [dc_pc EXCEPT ![c] = "idle"]
  /\ dc_company' = [dc_company EXCEPT ![c] = <<>>]
  /\ dc_website' = [dc_website EXCEPT ![c] = NoDomain]
  /\ dc_result' = [dc_result EXCEPT ![c] = NoDomain]
  /\ dc_searched' = [dc_searched EXCEPT ![c] = FALSE]
  /\ dc_prior' = [dc_prior EXCEPT ![c] = NoDomain]
  /\ UNCHANGED <<dc_cache, dc_produced, dc_calls, notDomainVars>>

DomainNext ==
  \E c \in Callers :
    \/ DiscoverWebsite(c)
    \/ DiscoverKnown(c)
    \/ DiscoverCached(c)
    \/ DiscoverSearch(c)
    \/ DiscoverSearchDone(c)
    \/ DiscoverTaken(c)

SpecDomain == DomainInit /\ [][DomainNext]_vars

\* ------------------------------------------- specification: find_people
\* the exclude sets handed to find_people: none (run_search), or the once
\* normalized URLs of known contacts (run_more_leads)
ExcludeInputs ==
  { {}, { _normalize_linkedin_url(R_a.link) }, { _normalize_linkedin_url(R_d.link) } }

FindInit ==
  /\ f_pc = "start"
  /\ f_serper \in BOOLEAN
  /\ f_openai \in BOOLEAN
  /\ f_exclude_in \in ExcludeInputs
  /\ f_outcomes = <<>>
  /\ f_deduped = <<>>
  /\ f_all = <<>>
  /\ f_final = <<>>
  /\ f_outcome = "pending"
  /\ f_searches = <<>>
  /\ NotFindIdle

FindReturn(final) ==
  /\ f_pc' = "done"
  /\ f_final' = final
  /\ f_outcome' = "returned"

FindRaise ==
  /\ f_pc' = "done"
  /\ f_final' = <<>>
  /\ f_outcome' = "raised"

\* _find_people_serper up to the validation await
FindSerperSearch ==
  /\ f_pc = "start"
  /\ f_serper
  /\ \E outcomes \in [1..NumQueries -> QueryOutcomes] :
       LET wide     == search_serper_wide(outcomes)
           found    == wide.people
           filtered == HardFilterAll(ExcludeExisting(found, NormalizeExclude(f_exclude_in)))
       IN  /\ f_outcomes' = outcomes
           /\ f_searches' = Append(f_searches, "serper")
           /\ IF wide.raised
                THEN FindRaise /\ UNCHANGED <<f_deduped, f_all>>
              ELSE IF found = <<>>
                THEN FindReturn(<<>>) /\ f_deduped' = found /\ f_all' = found
              ELSE IF filtered = <<>>
                THEN FindReturn(<<>>) /\ f_deduped' = found /\ f_all' = filtered
              ELSE /\ f_deduped' = found
                   /\ f_all' = filtered
                   /\ f_pc' = "validate"
                   /\ UNCHANGED <<f_final, f_outcome>>
  /\ UNCHANGED <<f_serper, f_openai, f_exclude_in>>
  /\ UNCHANGED notFindVars

\* the rest of _find_people_browser once its searches are in, up to the
\* validation await
BrowserFilter(recruiter_results, engineer_results) ==
  LET found == _deduplicate(Interleave(recruiter_results, engineer_results, 1))
  IN  /\ f_deduped' = found
      /\ f_all' = HardFilterAll(ExcludeExisting(found, NormalizeExclude(f_exclude_in)))
      /\ f_pc' = "validate"
      /\ UNCHANGED <<f_final, f_outcome>>

\* _find_people_browser: the two gathered Google searches
FindBrowserSearch ==
  /\ f_pc = "start"
  /\ ~f_serper
  /\ \E rec \in BrowserOutcomes, eng \in BrowserOutcomes :
       /\ f_outcomes' = <<rec, eng>>
       /\ f_searches' = Append(f_searches, "google")
       /\ IF Len(ResultsOf(rec)) < 2 /\ Len(ResultsOf(eng)) < 2
            THEN /\ f_pc' = "linkedin"
                 /\ UNCHANGED <<f_deduped, f_all, f_final, f_outcome>>
          ELSE BrowserFilter(ResultsOf(rec), ResultsOf(eng))
  /\ UNCHANGED <<f_serper, f_openai, f_exclude_in>>
  /\ UNCHANGED notFindVars

\* recruiter_results.extend(await self.search_linkedin(company, "recruiter"))
FindLinkedInSearch ==
  /\ f_pc = "linkedin"
  /\ \E direct \in BrowserOutcomes :
       /\ f_outcomes' = Append(f_outcomes, direct)
       /\ f_searches' = Append(f_searches, "linkedin")
       /\ BrowserFilter(ResultsOf(f_outcomes[1]) \o ResultsOf(direct), ResultsOf(f_outcomes[2]))
  /\ UNCHANGED <<f_serper, f_openai, f_exclude_in>>
  /\ UNCHANGED notFindVars

\* all_people = await self._filter_valid_people(all_people, company)
FindValidate ==
  /\ f_pc = "validate"
  /\ \E verdicts \in Verdicts(Len(f_all), f_openai) :
       LET valid == _filter_valid_people(f_all, verdicts)
       IN  /\ f_all' = valid
           /\ IF f_serper /\ valid = <<>>
                THEN FindReturn(<<>>)
              ELSE f_pc' = "score" /\ UNCHANGED <<f_final, f_outcome>>
  /\ UNCHANGED <<f_serper, f_openai, f_exclude_in, f_outcomes, f_deduped, f_searches>>
  /\ UNCHANGED notFindVars

\* scored = await score_people(...); return select_final_contacts(scored, ...)
FindScore ==
  /\ f_pc = "score"
  /\ \E resp \in ScoreResponses(ToPeople(f_all), f_openai) :
       FindReturn(select_final_contacts(score_people(ToPeople(f_all), resp), TargetCount))
  /\ UNCHANGED <<f_serper, f_openai, f_exclude_in, f_outcomes, f_deduped, f_all, f_searches>>
  /\ UNCHANGED notFindVars

FindNext ==
  \/ FindSerperSearch
  \/ FindBrowserSearch
  \/ FindLinkedInSearch
  \/ FindValidate
  \/ FindScore

SpecFind == FindInit /\ [][FindNext]_vars


\* ------------------------------------------------ specification: one job
\* One job of the service, from the moment start_search has stored the
\* PENDING result and scheduled _run_search_task.  Each action is the code
\* between two awaits that let other tasks run.  Retrieval runs with the
\* search API key set and no OpenAI key (validation skipped, heuristic scores).

\* _save_job: the in-memory store keeps the object, MongoDB a serialized copy
_save_job(h, id) ==
  IF j_mongo THEN LET c == Deserialize(h, id) IN [c.h EXCEPT !.store = c.id]
  ELSE [h EXCEPT !.store = id]

\* _get_job: the stored object itself, or a deserialized copy of the document
_get_job(h) ==
  IF j_mongo THEN Deserialize(h, h.store) ELSE [h |-> h, id |-> h.store]

\* update(msg, msg_type) with the tasks' on_update: append the entry, then
\* _save_job(result.model_copy())
update(h, id, message, msg_type) ==
  LET h1 == ExtendList(h, id, "activity_log", << _log_entry(message, msg_type) >>)
      c  == model_copy(h1, id)
  IN  _save_job(c.h, c.id)

\* find_people on the Serper path
find_people(outcomes, exclude_linkedin_urls) ==
  LET wide     == search_serper_wide(outcomes)
      filtered == HardFilterAll(ExcludeExisting(wide.people,
                                                NormalizeExclude(exclude_linkedin_urls)))
      valid    == _filter_valid_people(filtered, [i \in 1..Len(filtered) |-> "skip"])
      scored   == score_people(ToPeople(valid), [kind |-> "nokey", scores |-> <<>>])
  IN  IF wide.raised THEN [raised |-> TRUE, people |-> <<>>]
      ELSE [raised |-> FALSE, people |-> select_final_contacts(scored, TargetCount)]

\* the retrievals explored: what the first query and what the other four do
Retrieval(first, rest) == [q \in 1..NumQueries |-> IF q = 1 THEN first ELSE rest]

JobRetrievals ==
  { Retrieval([kind |-> "fail", results |-> <<>>], [kind |-> "fail", results |-> <<>>]),
    Retrieval([kind |-> "malformed", results |-> <<>>], [kind |-> "fail", results |-> <<>>]),
    Retrieval([kind |-> "ok", results |-> <<R_a, R_b>>], [kind |-> "fail", results |-> <<>>]),
    Retrieval([kind |-> "ok", results |-> <<R_A, R_page, R_d>>], [kind |-> "ok", results |-> <<>>]) }

jobEnv == <<j_found, j_emails, j_research>>
jobLeads == <<j_exclude, j_new, j_before>>

JobInit ==
  /\ j_mongo \in BOOLEAN
  /\ j_h = LET r == NewResult(EmptyHeap, "pending", "none", FALSE, <<>>, <<>>, <<>>, <<>>)
           IN  [r.h EXCEPT !.store = r.id]
  /\ j_pc = [t \in Tasks |-> IF t = "search" THEN "start" ELSE "idle"]
  /\ j_ref = [t \in Tasks |-> NoObj]
  /\ j_found = [kind |-> "pending", people |-> <<>>]
  /\ j_emails = "none"
  /\ j_research = "none"
  /\ j_exclude = [m \in MoreLeadsTasks |-> {}]
  /\ j_new = [m \in MoreLeadsTasks |-> <<>>]
  /\ j_before = [m \in MoreLeadsTasks |-> <<>>]
  /\ j_name = [r \in Requests |-> <<>>]
  /\ NotJobIdle

\* task t moves to pc with heap h and references ref
Step(t, pc, h, ref) ==
  LET roots == [i \in 1..Len(TaskOrder) |-> ref[TaskOrder[i]]]
  IN  /\ j_pc' = [j_pc EXCEPT ![t] = pc]
      /\ j_ref' = [u \in Tasks |-> IF ref[u] = NoObj THEN NoObj
                                    ELSE PosOf(ObjOrder(h, roots), ref[u])]
      /\ j_h' = Collect(h, roots)

\* ---- _run_search_task / run_search
\* run_search up to the find_people await; BrowserTool() raises when the SDK
\* cannot be imported, before any try block
SearchStart ==
  /\ j_pc["search"] = "start"
  /\ \E tools \in { "ok", "raise" } :
       IF tools = "raise" THEN Step("search", "failed", j_h, j_ref)
       ELSE LET r  == NewResult(j_h, "pending", "none", FALSE, <<>>, <<>>, <<>>, <<>>)
                h1 == SetField(r.h, r.id, "status", "finding_people")
                h2 == update(h1, r.id, "Searching for contacts", "status")
            IN  Step("search", "finding", h2, [j_ref EXCEPT !["search"] = r.id])
  /\ UNCHANGED <<j_mongo, jobEnv, jobLeads, j_name>>
  /\ UNCHANGED notJobVars

\* find_people returned or raised
SearchFound ==
  /\ j_pc["search"] = "finding"
  /\ \E outcomes \in JobRetrievals :
       LET r  == j_ref["search"]
           fp == find_people(outcomes, {})
       IN  /\ j_found' = [kind |-> IF fp.raised THEN "raised" ELSE "returned",
                          people |-> fp.people]
           /\ IF fp.raised
                THEN LET h1 == update(j_h, r, "Error finding people", "error")
                     IN  IF ListOf(h1, r, "people") = <<>>
                           THEN Step("search", "returned",
                                     SetField(SetField(h1, r, "status", "failed"),
                                              r, "error", "People finder failed"),
                                     j_ref)
                         ELSE Step("search", "found", h1, j_ref)
              ELSE LET h1 == AssignList(j_h, r, "people", fp.people)
                       h2 == update(h1, r, "Found contacts", "person_found")
                   IN  Step("search", "found", h2, j_ref)
  /\ UNCHANGED <<j_mongo, j_emails, j_research, jobLeads, j_name>>
  /\ UNCHANGED notJobVars

\* Step 2 up to the find_emails await
SearchEmailsBegin ==
  /\ j_pc["search"] = "found"
  /\ LET r  == j_ref["search"]
         h1 == SetField(j_h, r, "status", "finding_emails")
         h2 == update(h1, r, "Discovering emails", "status")
     IN  Step("search", "emails", h2, j_ref)
  /\ j_emails' = "called"
  /\ UNCHANGED <<j_mongo, j_found, j_research, jobLeads, j_name>>
  /\ UNCHANGED notJobVars

\* mutant: the except branch of Step 2 discards the contacts
EmailsFailedDropsPeople(h, r) ==
  update(AssignList(h, r, "people", <<>>), r, "Error finding emails", "error")

\* the except branch of Step 2
EmailsFailed(h, r) == update(h, r, "Error finding emails", "error")

\* find_emails returned or raised
SearchEmailsDone ==
  /\ j_pc["search"] = "emails"
  /\ \E out \in { "raise", "found" } :
       LET r == j_ref["search"]
           email_results == [i \in 1..Len(ListOf(j_h, r, "people")) |->
                               [name |-> ListOf(j_h, r, "people")[i].name, email |-> TRUE]]
       IN  /\ j_emails' = out
           /\ IF out = "raise" THEN Step("search", "emailed", EmailsFailed(j_h, r), j_ref)
              ELSE Step("search", "emailed",
                        update(AssignList(j_h, r, "email_results", email_results),
                               r, "Found emails", "email_found"),
                        j_ref)
  /\ UNCHANGED <<j_mongo, j_found, j_research, jobLeads, j_name>>
  /\ UNCHANGED notJobVars

\* Step 3 up to the research_company await
SearchResearchBegin ==
  /\ j_pc["search"] = "emailed"
  /\ LET r  == j_ref["search"]
         h1 == SetField(j_h, r, "status", "researching")
         h2 == update(h1, r, "Researching company", "status")
     IN  Step("search", "research", h2, j_ref)
  /\ UNCHANGED <<j_mongo, jobEnv, jobLeads, j_name>>
  /\ UNCHANGED notJobVars

\* research_company returned or raised
SearchResearchDone ==
  /\ j_pc["search"] = "research"
  /\ \E out \in { "raise", "ok" } :
       LET r == j_ref["search"]
       IN  /\ j_research' = out
           /\ IF out = "raise"
                THEN Step("search", "researched",
                          update(j_h, r, "Error researching company", "error"), j_ref)
              ELSE Step("search", "researched",
                        update(j_h, r, "Company research complete", "status"), j_ref)
  /\ UNCHANGED <<j_mongo, j_found, j_emails, jobLeads, j_name>>
  /\ UNCHANGED notJobVars

\* the context fields, COMPLETED and the last update; run_search returns
SearchComplete ==
  /\ j_pc["search"] = "researched"
  /\ LET r  == j_ref["search"]
         h1 == SetField(j_h, r, "company_context", j_research = "ok")
         h2 == SetField(h1, r, "status", "completed")
         h3 == update(h2, r, "Search complete", "complete")
     IN  Step("search", "returned", h3, j_ref)
  /\ UNCHANGED <<j_mongo, jobEnv, jobLeads, j_name>>
  /\ UNCHANGED notJobVars

\* _run_search_task after run_search: save, then broadcast (which raises when
\* a socket it found dead has meanwhile been removed from the list)
SearchTaskSave ==
  /\ j_pc["search"] = "returned"
  /\ \E broadcast \in { "ok", "raise" } :
       IF broadcast = "ok"
         THEN Step("search", "done", _save_job(j_h, j_ref["search"]),
                   [j_ref EXCEPT !["search"] = NoObj])
       ELSE Step("search", "failed", _save_job(j_h, j_ref["search"]), j_ref)
  /\ UNCHANGED <<j_mongo, jobEnv, jobLeads, j_name>>
  /\ UNCHANGED notJobVars

\* the body of _run_search_task's except branch, on current
SearchFailureBody(h, current) ==
  _save_job(SetField(SetField(h, current, "status", "failed"),
                     current, "error", "task failed"),
            current)

\* the except branch: current = await _get_job(job_id); with MongoDB the
\* load is an await of its own
SearchFailure ==
  /\ j_pc["search"] = "failed"
  /\ IF j_mongo
       THEN LET g == _get_job(j_h)
            IN  Step("search", "handling", g.h, [j_ref EXCEPT !["search"] = g.id])
     ELSE Step("search", "done", SearchFailureBody(j_h, j_h.store),
               [j_ref EXCEPT !["search"] = NoObj])
  /\ UNCHANGED <<j_mongo, jobEnv, jobLeads, j_name>>
  /\ UNCHANGED notJobVars

SearchFailureSave ==
  /\ j_pc["search"] = "handling"
  /\ Step("search", "done", SearchFailureBody(j_h, j_ref["search"]),
          [j_ref EXCEPT !["search"] = NoObj])
  /\ UNCHANGED <<j_mongo, jobEnv, jobLeads, j_name>>
  /\ UNCHANGED notJobVars

\* ---- start_more_leads / _run_more_leads_task / run_more_leads
\* POST more-leads: accepted when the stored job is COMPLETED
MoreLeadsRequest(m) ==
  /\ j_pc[m] = "idle"
  /\ j_h.objs[j_h.store].status = "completed"
  /\ Step(m, "scheduled", j_h, j_ref)
  /\ UNCHANGED <<j_mongo, jobEnv, jobLeads, j_name>>
  /\ UNCHANGED notJobVars

\* run_more_leads up to the find_people await, on result r
MoreLeadsBeginRun(m, h, r) ==
  LET people == ListOf(h, r, "people")
      h1     == SetField(h, r, "status", "finding_people")
      h2     == update(h1, r, "Finding more contacts", "status")
  IN  /\ j_exclude' = [j_exclude EXCEPT ![m] =
                         { _normalize_linkedin_url(people[i].linkedin_url) :
                             i \in { k \in 1..Len(people) : people[k].linkedin_url # <<>> } }]
      /\ j_before' = [j_before EXCEPT ![m] = people]
      /\ Step(m, "finding", h2, [j_ref EXCEPT ![m] = r])

\* the task starts: result = await _get_job(job_id)
MoreLeadsLoad(m) ==
  /\ j_pc[m] = "scheduled"
  /\ IF j_mongo
       THEN LET g == _get_job(j_h)
            IN  /\ Step(m, "loaded", g.h, [j_ref EXCEPT ![m] = g.id])
                /\ UNCHANGED <<j_exclude, j_before>>
     ELSE MoreLeadsBeginRun(m, j_h, j_h.store)
  /\ UNCHANGED <<j_mongo, jobEnv, j_new, j_name>>
  /\ UNCHANGED notJobVars

MoreLeadsBegin(m) ==
  /\ j_pc[m] = "loaded"
  /\ MoreLeadsBeginRun(m, j_h, j_ref[m])
  /\ UNCHANGED <<j_mongo, jobEnv, j_new, j_name>>
  /\ UNCHANGED notJobVars

\* find_people returned or raised
MoreLeadsFound(m) ==
  /\ j_pc[m] = "finding"
  /\ \E outcomes \in JobRetrievals :
       LET r  == j_ref[m]
           fp == find_people(outcomes, j_exclude[m])
       IN  IF fp.raised
             THEN /\ Step(m, "returned",
                          SetField(update(j_h, r, "Error finding more people", "error"),
                                   r, "status", "completed"),
                          j_ref)
                  /\ UNCHANGED j_new
           ELSE IF fp.people = <<>>
             THEN /\ Step(m, "returned",
                          SetField(update(j_h, r, "No new contacts found", "status"),
                                   r, "status", "completed"),
                          j_ref)
                  /\ UNCHANGED j_new
           ELSE /\ Step(m, "emails",
                        update(SetField(j_h, r, "status", "finding_emails"),
                               r, "Discovering emails for new contacts", "status"),
                        j_ref)
                /\ j_new' = [j_new EXCEPT ![m] = fp.people]
  /\ UNCHANGED <<j_mongo, jobEnv, j_exclude, j_before, j_name>>
  /\ UNCHANGED notJobVars

\* find_emails returned or raised: both branches extend people and
\* email_results
MoreLeadsEmails(m) ==
  /\ j_pc[m] = "emails"
  /\ \E out \in { "raise", "found" } :
       LET r  == j_ref[m]
           new_email_results == [i \in 1..Len(j_new[m]) |->
                                   [name |-> j_new[m][i].name, email |-> out = "found"]]
           h1 == ExtendList(j_h, r, "people", j_new[m])
           h2 == ExtendList(h1, r, "email_results", new_email_results)
       IN  Step(m, "added", update(h2, r, "Added contacts", "email_found"), j_ref)
  /\ UNCHANGED <<j_mongo, jobEnv, jobLeads, j_name>>
  /\ UNCHANGED notJobVars

MoreLeadsComplete(m) ==
  /\ j_pc[m] = "added"
  /\ LET r == j_ref[m]
     IN  Step(m, "returned",
              update(SetField(j_h, r, "status", "completed"), r, "More leads added", "complete"),
              j_ref)
  /\ UNCHANGED <<j_mongo, jobEnv, jobLeads, j_name>>
  /\ UNCHANGED notJobVars

\* _run_more_leads_task after run_more_leads: save, then broadcast
MoreLeadsTaskSave(m) ==
  /\ j_pc[m] = "returned"
  /\ \E broadcast \in { "ok", "raise" } :
       IF broadcast = "ok"
         THEN Step(m, "done", _save_job(j_h, j_ref[m]), [j_ref EXCEPT ![m] = NoObj])
       ELSE Step(m, "failed", _save_job(j_h, j_ref[m]), j_ref)
  /\ UNCHANGED <<j_mongo, jobEnv, jobLeads, j_name>>
  /\ UNCHANGED notJobVars

\* the body of _run_more_leads_task's except branch, on current
MoreLeadsFailureBody(h, current) ==
  _save_job(ExtendList(SetField(h, current, "status", "completed"), current,
                       "activity_log", << _log_entry("Error finding more leads", "error") >>),
            current)

MoreLeadsFailure(m) ==
  /\ j_pc[m] = "failed"
  /\ IF j_mongo
       THEN LET g == _get_job(j_h)
            IN  Step(m, "handling", g.h, [j_ref EXCEPT ![m] = g.id])
     ELSE Step(m, "done", MoreLeadsFailureBody(j_h, j_h.store), [j_ref EXCEPT ![m] = NoObj])
  /\ UNCHANGED <<j_mongo, jobEnv, jobLeads, j_name>>
  /\ UNCHANGED notJobVars

MoreLeadsFailureSave(m) ==
  /\ j_pc[m] = "handling"
  /\ Step(m, "done", MoreLeadsFailureBody(j_h, j_ref[m]), [j_ref EXCEPT ![m] = NoObj])
  /\ UNCHANGED <<j_mongo, jobEnv, jobLeads, j_name>>
  /\ UNCHANGED notJobVars

\* ---- generate_email_for_contact, edit_email
NamesIn(list) == { list[i].name : i \in 1..Len(list) }

\* the contact names generate_email_for_contact goes on to write a draft for
DraftableNames(h, r) ==
  IF ~h.objs[r].company_context THEN {}
  ELSE { n \in NamesIn(ListOf(h, r, "people")) :
           /\ \E i \in 1..Len(ListOf(h, r, "email_results")) :
                LET first == CHOOSE k \in 1..Len(ListOf(h, r, "email_results")) :
                               /\ ListOf(h, r, "email_results")[k].name = n
                               /\ \A j \in 1..(k - 1) : ListOf(h, r, "email_results")[j].name # n
                IN  ListOf(h, r, "email_results")[i].name = n
                    /\ ListOf(h, r, "email_results")[first].email
           /\ n \notin NamesIn(ListOf(h, r, "email_drafts")) }

\* POST /api/email/generate up to the generate_single_email await
GenerateLoad ==
  /\ j_pc["gen"] = "idle"
  /\ LET g == _get_job(j_h)
     IN  \E n \in DraftableNames(g.h, g.id) :
           /\ j_name' = [j_name EXCEPT !["gen"] = n]
           /\ Step("gen", "writing", g.h, [j_ref EXCEPT !["gen"] = g.id])
  /\ UNCHANGED <<j_mongo, jobEnv, jobLeads>>
  /\ UNCHANGED notJobVars

\* the draft is appended and the whole job saved
GenerateSave ==
  /\ j_pc["gen"] = "writing"
  /\ LET r  == j_ref["gen"]
         h1 == ExtendList(j_h, r, "email_drafts", << [name |-> j_name["gen"], body |-> "draft"] >>)
     IN  Step("gen", "done", _save_job(h1, r), [j_ref EXCEPT !["gen"] = NoObj])
  /\ UNCHANGED <<j_mongo, jobEnv, jobLeads, j_name>>
  /\ UNCHANGED notJobVars

\* the loop of edit_email: the first draft of that name is changed, the job
\* saved
EditBody(h, r, name) ==
  LET drafts == ListOf(h, r, "email_drafts")
      first  == CHOOSE k \in 1..Len(drafts) :
                  drafts[k].name = name /\ \A j \in 1..(k - 1) : drafts[j].name # name
  IN  _save_job([h EXCEPT !.lists[h.objs[r].email_drafts][first].body = "edited"], r)

\* PUT /api/email/edit for a contact that has a draft; with MongoDB the load
\* is an await of its own
EditLoad ==
  /\ j_pc["edit"] = "idle"
  /\ LET g == _get_job(j_h)
     IN  \E n \in NamesIn(ListOf(g.h, g.id, "email_drafts")) :
           /\ j_name' = [j_name EXCEPT !["edit"] = n]
           /\ IF j_mongo
                THEN Step("edit", "loaded", g.h, [j_ref EXCEPT !["edit"] = g.id])
              ELSE Step("edit", "done", EditBody(g.h, g.id, n), j_ref)
  /\ UNCHANGED <<j_mongo, jobEnv, jobLeads>>
  /\ UNCHANGED notJobVars

EditSave ==
  /\ j_pc["edit"] = "loaded"
  /\ Step("edit", "done", EditBody(j_h, j_ref["edit"], j_name["edit"]),
          [j_ref EXCEPT !["edit"] = NoObj])
  /\ UNCHANGED <<j_mongo, jobEnv, jobLeads, j_name>>
  /\ UNCHANGED notJobVars

JobNext ==
  \/ SearchStart
  \/ SearchFound
  \/ SearchEmailsBegin
  \/ SearchEmailsDone
  \/ SearchResearchBegin
  \/ SearchResearchDone
  \/ SearchComplete
  \/ SearchTaskSave
  \/ SearchFailure
  \/ SearchFailureSave
  \/ \E m \in MoreLeadsTasks :
       \/ MoreLeadsRequest(m)
       \/ MoreLeadsLoad(m)
       \/ MoreLeadsBegin(m)
       \/ MoreLeadsFound(m)
       \/ MoreLeadsEmails(m)
       \/ MoreLeadsComplete(m)
       \/ MoreLeadsTaskSave(m)
       \/ MoreLeadsFailure(m)
       \/ MoreLeadsFailureSave(m)
  \/ GenerateLoad
  \/ GenerateSave
  \/ EditLoad
  \/ EditSave

SpecJob == JobInit /\ [][JobNext]_vars

\* ------------------------------------------- specification: score_people
\* the people handed to score_people: two whose names normalize to the same
\* key and one recruiter
ScorePool ==
  { ToPerson([name |-> <<"a">>, title |-> "Software Engineer", linkedin_url |-> <<"in/", "u">>]),
    ToPerson([name |-> <<"A", " ">>, title |-> "Engineering Manager", linkedin_url |-> <<"in/", "v">>]),
    ToPerson([name |-> <<"b">>, title |-> "Technical Recruiter", linkedin_url |-> <<"in/", "w">>]) }

\* the raw scores an entry carries: below 0, inside 0..100, above 100
RawScores == { 0 - 20, 40, 150 }

\* the entries a response is made of
ScoreEntries ==
  { [name |-> n, kind |-> k, score |-> 0, reason |-> "model"] :
      n \in { <<"a">>, <<"c">>, <<>> }, k \in { "missing", "bad" } }
  \cup { [name |-> n, kind |-> "number", score |-> r, reason |-> "model"] :
           n \in { <<"a">>, <<"b">>, <<"c">>, <<>> }, r \in RawScores }
  \cup { [name |-> <<>>, kind |-> "nondict", score |-> 0, reason |-> "model"] }

ScoreInit ==
  /\ s_pc = "build"
  /\ s_people = <<>>
  /\ s_resp = [kind |-> "entries", scores |-> <<>>]
  /\ s_scored = <<>>
  /\ NotScoreIdle

\* the caller's list grows by one person
ScoreAddPerson ==
  /\ s_pc = "build"
  /\ Len(s_people) < MaxPeople
  /\ \E p \in ScorePool : s_people' = Append(s_people, p)
  /\ UNCHANGED <<s_pc, s_resp, s_scored, notScoreVars>>

\* the response grows by one entry
ScoreAddEntry ==
  /\ s_pc = "build"
  /\ s_resp.kind = "entries"
  /\ Len(s_resp.scores) < MaxScores
  /\ \E e \in ScoreEntries : s_resp' = [s_resp EXCEPT !.scores = Append(@, e)]
  /\ UNCHANGED <<s_pc, s_people, s_scored, notScoreVars>>

\* the service is not configured, or the call or the parse of its body fails
ScoreServiceDown ==
  /\ s_pc = "build"
  /\ s_resp = [kind |-> "entries", scores |-> <<>>]
  /\ \E k \in { "nokey", "raise" } : s_resp' = [kind |-> k, scores |-> <<>>]
  /\ UNCHANGED <<s_pc, s_people, s_scored, notScoreVars>>

\* score_people(people, role, company)
ScoreCall ==
  /\ s_pc = "build"
  /\ s_scored' = score_people(s_people, s_resp)
  /\ s_pc' = "done"
  /\ UNCHANGED <<s_people, s_resp, notScoreVars>>

ScoreNext == ScoreAddPerson \/ ScoreAddEntry \/ ScoreServiceDown \/ ScoreCall

SpecScore == ScoreInit /\ [][ScoreNext]_vars

\* --------------------------------- specification: select_final_contacts
\* one title of each category, and the scores of a pool
SelectTitles == { "Technical Recruiter", "Engineering Manager", "Software Engineer" }
SelectScores == { 50, 90 }

\* the name of the i-th person of a pool: one name per position
NameAt(i) == [k \in 1..i |-> "x"]

ScoredPerson(i, title, score) ==
  [ToPerson([name |-> NameAt(i), title |-> title, linkedin_url |-> <<>>])
     EXCEPT !.priority_score = score, !.priority_reason = "model"]

\* the targets of a call: none, fewer than the quotas add up to, and the
\* target_count of run_search and run_more_leads
SelectTargets == { 0, 3, TargetCount }

SelectInit ==
  /\ sel_pc = "build"
  /\ sel_target \in SelectTargets
  /\ sel_pool = <<>>
  /\ sel_out = <<>>
  /\ NotSelectIdle

\* the pool grows by one person; it is the list score_people returned, so it
\* is in descending score order
SelectAdd ==
  /\ sel_pc = "build"
  /\ Len(sel_pool) < MaxPool
  /\ \E t \in SelectTitles, sc \in SelectScores :
       /\ sel_pool # <<>> => sc <= sel_pool[Len(sel_pool)].priority_score
       /\ sel_pool' = Append(sel_pool, ScoredPerson(Len(sel_pool) + 1, t, sc))
  /\ UNCHANGED <<sel_pc, sel_out, sel_target, notSelectVars>>

\* the pool grows by a person equal in every field to its last one (at most
\* one such pair in a pool)
SelectAddEqual ==
  /\ sel_pc = "build"
  /\ sel_pool # <<>>
  /\ Len(sel_pool) < MaxPool
  /\ \A i, k \in 1..Len(sel_pool) : i # k => sel_pool[i] # sel_pool[k]
  /\ sel_pool' = Append(sel_pool, sel_pool[Len(sel_pool)])
  /\ UNCHANGED <<sel_pc, sel_out, sel_target, notSelectVars>>

\* select_final_contacts(scored, target=target_count)
SelectCall ==
  /\ sel_pc = "build"
  /\ sel_out' = select_final_contacts(sel_pool, sel_target)
  /\ sel_pc' = "done"
  /\ UNCHANGED <<sel_pool, sel_target, notSelectVars>>

SelectNext == SelectAdd \/ SelectAddEqual \/ SelectCall

SpecSelect == SelectInit /\ [][SelectNext]_vars

\* ----------------------------------- specification: _filter_valid_people
\* the candidates handed to _filter_valid_people
ValidatePool == { BP(R_a), BP(R_A), BP(R_b) }

ValidateInit ==
  /\ v_pc = "build"
  /\ v_people = <<>>
  /\ v_key \in BOOLEAN
  /\ v_answer = <<>>
  /\ v_calls = <<>>
  /\ v_order = <<>>
  /\ v_out = <<>>
  /\ NotValidateIdle

\* the list of candidates grows by one
ValidateAdd ==
  /\ v_pc = "build"
  /\ Len(v_people) < MaxLen
  /\ \E p \in ValidatePool : v_people' = Append(v_people, p)
  /\ UNCHANGED <<v_pc, v_key, v_answer, v_calls, v_order, v_out, notValidateVars>>

\* if not people: return []
ValidateEmpty ==
  /\ v_pc = "build"
  /\ v_people = <<>>
  /\ v_pc' = "done"
  /\ v_out' = <<>>
  /\ UNCHANGED <<v_people, v_key, v_answer, v_calls, v_order, notValidateVars>>

\* validation_tasks = [...]; asyncio.gather(*validation_tasks) starts them
ValidateGather ==
  /\ v_pc = "build"
  /\ v_people # <<>>
  /\ v_pc' = "running"
  /\ v_answer' = [i \in 1..Len(v_people) |-> "pending"]
  /\ v_calls' = [i \in 1..Len(v_people) |-> 0]
  /\ UNCHANGED <<v_people, v_key, v_order, v_out, notValidateVars>>

\* one _validate_person_works_at_company coroutine ends, in any order: with
\* no key it returns True without a request; else its one request is
\* answered with yes, answered without yes, or raises
ValidateCheck ==
  /\ v_pc = "running"
  /\ \E i \in 1..Len(v_people) :
       /\ v_answer[i] = "pending"
       /\ \E verdicts \in Verdicts(Len(v_people), v_key) :
            v_answer' = [v_answer EXCEPT ![i] = verdicts[i]]
       /\ v_calls' = [v_calls EXCEPT ![i] = IF v_key THEN @ + 1 ELSE @]
       /\ v_order' = Append(v_order, i)
  /\ UNCHANGED <<v_pc, v_people, v_key, v_out, notValidateVars>>

\* gather returns the results in argument order; the zip filter
ValidateReturn ==
  /\ v_pc = "running"
  /\ \A i \in 1..Len(v_people) : v_answer[i] # "pending"
  /\ v_out' = _filter_valid_people(v_people, v_answer)
  /\ v_pc' = "done"
  /\ UNCHANGED <<v_people, v_key, v_answer, v_calls, v_order, notValidateVars>>

ValidateNext ==
  ValidateAdd \/ ValidateEmpty \/ ValidateGather \/ ValidateCheck \/ ValidateReturn

SpecValidate == ValidateInit /\ [][ValidateNext]_vars

\* -------------------------------------------- specification: find_emails
\* the contacts handed to find_emails: a two-word name, a first initial, a
\* single name, a name with no letter of a-z, and "last, first" with a suffix
Contacts ==
  { [name |-> <<"A", "b", "u", " ", "V", "a", "b">>, title |-> "Software Engineer"],
    [name |-> <<"A", ".", " ", "V", "a", "b">>, title |-> "Technical Recruiter"],
    [name |-> <<"a", "b", "u">>, title |-> "Software Engineer"],
    [name |-> <<"#", " ", "#">>, title |-> "Technical Recruiter"],
    [name |-> <<"V", "a", "b", ",", " ", "A", "b", "u", " ", "I", "I">>,
     title |-> "Engineering Manager"] }

\* the domain discover_company_domain returned
EmailDomain == "acme.io"

NoGithub == [found |-> FALSE, email |-> <<>>]

\* what find_github_email can return for a contact: None, the contact's own
\* address at the company in the most common format, or an address elsewhere
GithubOutcomes(person) ==
  LET pn       == parse_name(person.name)
      patterns == generate_email_patterns(pn.first, pn.last, EmailDomain)
  IN  IF pn.first = <<>> \/ ~is_engineer(person.title) THEN { NoGithub }
      ELSE { NoGithub, [found |-> TRUE, email |-> <<"u", "@", "mail.org">>] }
           \cup { [found |-> TRUE, email |-> patterns[k]] : k \in { 1 } \cap DOMAIN patterns }

NoResult == EmailResult(<<>>, <<>>, "LOW", "none", <<>>)

EmailInit ==
  /\ e_pc = "build"
  /\ e_people = <<>>
  /\ e_mx = FALSE
  /\ e_domain = ""
  /\ e_detected = "none"
  /\ e_task = <<>>
  /\ e_results = <<>>
  /\ NotEmailIdle

\* the contact list grows by one
EmailAdd ==
  /\ e_pc = "build"
  /\ Len(e_people) < MaxContacts
  /\ \E p \in Contacts : e_people' = Append(e_people, p)
  /\ UNCHANGED <<e_pc, e_mx, e_domain, e_detected, e_task, e_results, notEmailVars>>

\* find_emails up to the gather: the domain, the MX check, the pattern
\* discovery, one task per contact
EmailGather ==
  /\ e_pc = "build"
  /\ \E has_mx \in BOOLEAN, detected_pattern \in DetectedPatterns :
       /\ e_mx' = has_mx
       /\ e_domain' = DomainAfterMx(EmailDomain, has_mx)
       /\ e_detected' = detected_pattern
  /\ e_task' = [i \in 1..Len(e_people) |->
                  [kind |-> "pending", github |-> NoGithub, result |-> NoResult]]
  /\ e_pc' = "running"
  /\ UNCHANGED <<e_people, e_results, notEmailVars>>

\* one _find_email_for_person task returns, in any order
EmailTaskReturns ==
  /\ e_pc = "running"
  /\ \E i \in 1..Len(e_people) :
       /\ e_task[i].kind = "pending"
       /\ \E github \in GithubOutcomes(e_people[i]) :
            e_task' = [e_task EXCEPT ![i] =
                         [kind |-> "returned", github |-> github,
                          result |-> _find_email_for_person(e_people[i], e_domain,
                                                            e_detected, github)]]
  /\ UNCHANGED <<e_pc, e_people, e_mx, e_domain, e_detected, e_results, notEmailVars>>

\* one task raises: gather(return_exceptions=True) keeps the exception
EmailTaskRaises ==
  /\ e_pc = "running"
  /\ \E i \in 1..Len(e_people) :
       /\ e_task[i].kind = "pending"
       /\ e_task' = [e_task EXCEPT ![i] =
                       [kind |-> "raised", github |-> NoGithub, result |-> NoResult]]
  /\ UNCHANGED <<e_pc, e_people, e_mx, e_domain, e_detected, e_results, notEmailVars>>

\* the result loop and the return
EmailReturn ==
  /\ e_pc = "running"
  /\ \A i \in 1..Len(e_people) : e_task[i].kind # "pending"
  /\ e_results' = ResultLoop(e_people, e_task, e_domain)
  /\ e_pc' = "done"
  /\ UNCHANGED <<e_people, e_mx, e_domain, e_detected, e_task, notEmailVars>>

EmailNext == EmailAdd \/ EmailGather \/ EmailTaskReturns \/ EmailTaskRaises \/ EmailReturn

SpecEmail == EmailInit /\ [][EmailNext]_vars

\* ------------------------------------------------------------------ claims

\* C9: deduplication is idempotent: a second pass over the output of the first
\* returns the same candidates in the same order.
C9_DedupIdempotent == d_pc = "twice" => d_again = d_unique

\* C9 witness: a second pass has run over an output from which the first pass
\* had dropped a duplicate.
C9_Witness ==
  /\ d_pc = "twice"
  /\ Len(d_unique) >= 2
  /\ Len(d_unique) < Len(d_people)

\* a candidate shares a key with another one when the key is present and equal
SharesKey(p, q) ==
  \/ (url_key(p) # <<>> /\ url_key(p) = url_key(q))
  \/ (name_key(p) # <<>> /\ name_key(p) = name_key(q))

\* s is t with some elements left out, order kept
RECURSIVE IsSubsequence(_, _)
IsSubsequence(s, t) ==
  IF s = <<>> THEN TRUE
  ELSE IF t = <<>> THEN FALSE
  ELSE IF s[1] = t[1] THEN IsSubsequence(Tail(s), Tail(t))
  ELSE IsSubsequence(s, Tail(t))

\* the number of fresh candidates (sharing no key with a predecessor)
FreshIdx(people) ==
  { i \in 1..Len(people) : \A j \in 1..(i - 1) : ~SharesKey(people[i], people[j]) }

Occurrences(s, x) == Cardinality({ i \in 1..Len(s) : s[i] = x })

\* C10: a candidate sharing neither normalized identifier nor normalized name
\* with any candidate before it in the input is kept, and the kept candidates
\* are in input order.
C10_DedupKeepsFresh ==
  d_pc # "build" =>
    /\ IsSubsequence(d_unique, d_people)
    /\ \A i \in FreshIdx(d_people) :
         Occurrences(d_unique, d_people[i]) >=
           Cardinality({ k \in FreshIdx(d_people) : d_people[k] = d_people[i] })

\* C10 witness: a fresh candidate follows a dropped duplicate and is kept.
C10_Witness ==
  /\ d_pc = "once"
  /\ Len(d_people) = 3
  /\ SharesKey(d_people[2], d_people[1])
  /\ 3 \in FreshIdx(d_people)
  /\ d_unique = <<d_people[1], d_people[3]>>

\* the host of a website value: what follows the scheme (if any) and a leading
\* www., up to the first "/", in lower case
HostOf(w) ==
  LET a == IF w # <<>> /\ IsScheme(w[1]) THEN 2 ELSE 1
      b == IF a <= Len(w) /\ w[a] = "www." THEN a + 1 ELSE a
  IN  Lower(NotSlashRun(w, b))

\* C6: with a user-supplied website, discover_company_domain returns that
\* website's host and issues no external search.
C6_WebsiteHostNoSearch ==
  \A c \in Callers :
    (dc_pc[c] = "done" /\ dc_website[c] # NoDomain) =>
      (dc_result[c] = HostOf(dc_website[c]) /\ ~dc_searched[c])

\* C7: a call without a website, made after a domain was produced for the same
\* normalized organization name, returns that domain and issues no search.
C7_CachedUnderNormalizedName ==
  \A c \in Callers :
    (dc_pc[c] = "done" /\ dc_website[c] = NoDomain /\ dc_prior[c] # NoDomain) =>
      (dc_result[c] = dc_prior[c] /\ ~dc_searched[c])

\* C8: an entry of the cache, once written, never changes.
C8_CacheWriteOnce ==
  [][\A k \in DOMAIN dc_cache : k \in DOMAIN dc_cache' /\ dc_cache'[k] = dc_cache[k]]_vars

\* ---- find_people
NothingRetrieved == \A q \in 1..Len(f_outcomes) : ResultsOf(f_outcomes[q]) = <<>>

\* C2: when every search of the call came back empty or failed (all five
\* Serper queries, or both browser searches and the direct LinkedIn search),
\* find_people returns an empty list and does not raise
C2_NothingRetrievedReturnsEmpty ==
  (f_pc = "done" /\ f_outcomes # <<>> /\ NothingRetrieved)
    => (f_outcome = "returned" /\ f_final = <<>>)

\* ---- the job
IsPrefix(s, t) == Len(s) <= Len(t) /\ SubSeq(t, 1, Len(s)) = s

HasEntry(log, message, entry_type) ==
  \E i \in 1..Len(log) : log[i] = _log_entry(message, entry_type)

\* C1: when find_people returns an empty list or raises, run_search returns
\* with the job FAILED and an error recorded, and find_emails was never called
C1_NoCandidatesFails ==
  (j_pc["search"] = "returned" /\ j_found.people = <<>>)
    => /\ j_h.objs[j_ref["search"]].status = "failed"
       /\ j_h.objs[j_ref["search"]].error # "none"
       /\ j_emails = "none"

\* C3: when find_emails or research_company raises after find_people returned
\* contacts, run_search returns with the job COMPLETED, the contacts it found
\* still in result.people unchanged, and an 'error' entry for the stage that
\* raised in the activity log
C3_StageFailureKeepsContacts ==
  (/\ j_pc["search"] = "returned"
   /\ j_found.people # <<>>
   /\ (j_emails = "raise" \/ j_research = "raise"))
    => LET r == j_ref["search"]
       IN  /\ j_h.objs[r].status = "completed"
           /\ IsPrefix(j_found.people, ListOf(j_h, r, "people"))
           /\ ((\A m \in MoreLeadsTasks :
                  j_pc[m] \in { "idle", "scheduled", "loaded", "finding", "emails" })
                 => ListOf(j_h, r, "people") = j_found.people)
           /\ (j_emails = "raise"
                 => HasEntry(ListOf(j_h, r, "activity_log"), "Error finding emails", "error"))
           /\ (j_research = "raise"
                 => HasEntry(ListOf(j_h, r, "activity_log"), "Error researching company", "error"))

C3_Witness ==
  /\ j_pc["search"] = "returned"
  /\ j_found.people # <<>>
  /\ j_emails = "raise"
  /\ j_research = "raise"
  /\ j_h.objs[j_ref["search"]].status = "completed"

\* the log a reader of the job is given
StoredLog == ListOf(j_h, j_h.store, "activity_log")

\* C4: the activity log of the stored job only grows: after every step of any
\* task the log read before is a prefix of the log read after
C4_LogAppendOnly == [][IsPrefix(StoredLog, StoredLog')]_vars

\* the profile identifier of a URL: case-insensitive, query string and
\* trailing slashes ignored
ProfileId(url) == RStripSlash(BeforeQuery(Lower(Strip(url))))

\* C5: no contact run_more_leads appended has the profile identifier of a
\* contact that was in result.people when it began
C5_NoReEmission ==
  \A m \in MoreLeadsTasks :
    j_pc[m] \in { "added", "returned", "failed", "handling", "done" }
      => \A i \in 1..Len(j_new[m]), k \in 1..Len(j_before[m]) :
           j_before[m][k].linkedin_url # <<>>
             => ProfileId(j_new[m][i].linkedin_url) # ProfileId(j_before[m][k].linkedin_url)

\* ---- deduplication keys
\* C11: in the output of _deduplicate no two candidates have the same non-empty
\* profile identifier (lowercased, trailing slash and query string ignored) and
\* no two have the same non-empty normalized name (trimmed, lowercased)
C11_DedupOutputKeysDistinct ==
  d_pc \in { "once", "twice" }
    => \A i \in 1..Len(d_unique), k \in 1..Len(d_unique) :
         i < k =>
           /\ (ProfileId(d_unique[i].linkedin_url) # <<>>
                 => ProfileId(d_unique[i].linkedin_url) # ProfileId(d_unique[k].linkedin_url))
           /\ (name_key(d_unique[i]) # <<>> => name_key(d_unique[i]) # name_key(d_unique[k]))



\* ---- scoring
\* C12: whatever the reasoning service does (not configured, the call fails,
\* raw scores outside 0..100, entries without a usable score, fewer entries
\* than people), the list score_people returns is in descending score order
\* and every score lies in [0, 1] (0..100 hundredths)
C12_ScoresSortedAndBounded ==
  s_pc = "done"
    => /\ \A i \in 1..Len(s_scored) : s_scored[i].priority_score \in 0..100
       /\ \A i \in 1..(Len(s_scored) - 1) :
            s_scored[i].priority_score >= s_scored[i + 1].priority_score

\* C12 witness: a response with fewer entries than people, one of them with a
\* raw score above 100 that was used and clamped
C12_Witness ==
  /\ s_pc = "done"
  /\ s_resp.kind = "entries"
  /\ Len(s_resp.scores) < Len(s_people)
  /\ \E i \in 1..Len(s_resp.scores) : s_resp.scores[i].score > 100
  /\ \E i \in 1..Len(s_scored) :
       s_scored[i].priority_score = 100 /\ s_scored[i].priority_reason = "model"


\* ---- diversity selection
\* the number of people of a category in a list
CountOf(people, cat) == Cardinality({ i \in 1..Len(people) : categorize(people[i].title) = cat })

\* the pool holds the quota of every category
HasQuotas(people) == \A cat \in DOMAIN TARGETS : CountOf(people, cat) >= TARGETS[cat]

\* C13: for a scored pool with at least 2 recruiters, 3 engineers and 1
\* manager, select_final_contacts with target 8 returns a list with at least 2
\* recruiters, 3 engineers and 1 manager and exactly min(target, pool size)
\* elements
C13_QuotasAndCount ==
  (sel_pc = "done" /\ sel_target = TargetCount /\ HasQuotas(sel_pool))
    => /\ HasQuotas(sel_out)
       /\ Len(sel_out) = Min(TargetCount, Len(sel_pool))

\* C14: the list select_final_contacts returns is in descending score order,
\* the contacts added by the fill step included
C14_SelectionDescending ==
  sel_pc = "done"
    => \A i \in 1..(Len(sel_out) - 1) :
         sel_out[i].priority_score >= sel_out[i + 1].priority_score


\* ---- relevance validation
\* the positions of the candidates whose check did not answer no, ascending
KeptPositions(answers) ==
  SelectSeq([i \in 1..Len(answers) |-> i], LAMBDA i : answers[i] \in { "yes", "error", "skip" })

\* C15: validation is fail-open: whatever each check did (yes, no, failure)
\* and in whatever order the concurrent checks ended, _filter_valid_people
\* returns exactly the candidates whose check answered yes or failed, in input
\* order, and no check was sent more than once
C15_ValidationFailOpen ==
  v_pc = "done"
    => /\ Len(v_out) = Len(KeptPositions(v_answer))
       /\ \A k \in 1..Len(v_out) : v_out[k] = v_people[KeptPositions(v_answer)[k]]
       /\ \A i \in 1..Len(v_calls) : v_calls[i] <= 1

\* C15 witness: three checks that ended out of input order, one answering
\* yes, one no and one failing; the failed one's candidate is returned
C15_Witness ==
  /\ v_pc = "done"
  /\ { v_answer[i] : i \in 1..Len(v_answer) } = { "yes", "no", "error" }
  /\ v_order = <<3, 1, 2>>
  /\ v_answer[3] = "error"
  /\ Len(v_out) = 2
  /\ v_out[2] = v_people[3]


\* ---- retrieval backends
\* C19: whenever the search API backend is unavailable or returns fewer than
\* two usable results, find_people searches with the browser backend before it
\* returns; and on the browser backend the direct LinkedIn search is made
\* exactly when the recruiter search and the role search both returned fewer
\* than two results
C19_FallbackToBrowser ==
  f_outcome # "pending"
    => /\ (~InSeq("serper", f_searches) \/ f_outcome = "raised" \/ Len(f_deduped) < 2)
            => InSeq("google", f_searches)
       /\ InSeq("google", f_searches)
            => (InSeq("linkedin", f_searches)
                  <=> (Len(ResultsOf(f_outcomes[1])) < 2 /\ Len(ResultsOf(f_outcomes[2])) < 2))


\* ---- email resolution
\* the primary address of the i-th record is the one the public-profile
\* lookup returned
FromLookup(i) == e_task[i].kind = "returned" /\ e_task[i].github.found

\* the primary address of the i-th record was generated from a pattern
PatternDerived(i) == e_results[i].email # <<>> /\ ~FromLookup(i)

\* C16 as stated: confidence is HIGH only for an address the lookup returned,
\* and a pattern address is MEDIUM when a convention was inferred for the
\* domain and LOW when none was
C16_ConfidenceByProvenance ==
  e_pc = "done"
    => \A i \in 1..Len(e_results) :
         /\ e_results[i].confidence = "HIGH" => FromLookup(i)
         /\ PatternDerived(i)
              => e_results[i].confidence = (IF e_detected # "none" THEN "MEDIUM" ELSE "LOW")

\* C16 amended: confidence is HIGH only for an address the lookup returned; a
\* pattern address a task returned is MEDIUM when a convention was inferred
\* and LOW when none was; the pattern address of a contact whose task raised
\* is LOW whether or not a convention was inferred
C16_ConfidenceByProvenanceOrError ==
  e_pc = "done"
    => \A i \in 1..Len(e_results) :
         /\ e_results[i].confidence = "HIGH" => FromLookup(i)
         /\ (PatternDerived(i) /\ e_task[i].kind = "returned")
              => e_results[i].confidence = (IF e_detected # "none" THEN "MEDIUM" ELSE "LOW")
         /\ (PatternDerived(i) /\ e_task[i].kind = "raised")
              => e_results[i].confidence = "LOW"

\* C16 witness: with a convention inferred, one call returned a MEDIUM pattern
\* address for its first contact and the LOW pattern address of the fallback
\* for its second, whose task raised
C16_Witness ==
  /\ e_pc = "done"
  /\ e_detected # "none"
  /\ Len(e_results) = 2
  /\ e_task[1].kind = "returned"
  /\ PatternDerived(1)
  /\ e_results[1].confidence = "MEDIUM"
  /\ e_task[2].kind = "raised"
  /\ PatternDerived(2)

\* C17: alternative_emails has at most two entries and never holds the
\* primary address
C17_AlternativesExcludePrimary ==
  e_pc = "done"
    => \A i \in 1..Len(e_results) :
         /\ Len(e_results[i].alternative_emails) <= 2
         /\ \A k \in 1..Len(e_results[i].alternative_emails) :
              e_results[i].alternative_emails[k] # e_results[i].email

\* the name of the i-th contact is one parse_name gets a first name from
Parseable(i) == parse_name(e_people[i].name).first # <<>>

\* C18 as stated: without an MX record find_emails returns for every contact
\* a record with an address, non-empty for a parseable name, and confidence
\* LOW or MEDIUM
C18_NoMxStillResolves ==
  (e_pc = "done" /\ ~e_mx)
    => /\ Len(e_results) = Len(e_people)
       /\ \A i \in 1..Len(e_results) :
            /\ Parseable(i) => e_results[i].email # <<>>
            /\ e_results[i].confidence \in { "LOW", "MEDIUM" }

\* C18 amended: without an MX record find_emails returns for every contact a
\* record with an address, non-empty for a parseable name; its confidence is
\* LOW or MEDIUM unless the address is one the public-profile lookup returned
C18_NoMxStillResolvesOrLookup ==
  (e_pc = "done" /\ ~e_mx)
    => /\ Len(e_results) = Len(e_people)
       /\ \A i \in 1..Len(e_results) :
            /\ Parseable(i) => e_results[i].email # <<>>
            /\ e_results[i].confidence \in { "LOW", "MEDIUM" } \/ FromLookup(i)

\* C18 witness: no MX record, and a contact got a non-empty pattern address
C18_Witness ==
  /\ e_pc = "done"
  /\ ~e_mx
  /\ \E i \in 1..Len(e_results) :
       Parseable(i) /\ PatternDerived(i) /\ e_results[i].confidence = "MEDIUM"

\* C20: find_emails returns one record per contact, in input order; a contact
\* whose task raised gets a LOW pattern-guess record, and every other contact
\* the record its task returned
C20_OneResultPerContact ==
  e_pc = "done"
    => /\ Len(e_results) = Len(e_people)
       /\ \A i \in 1..Len(e_results) :
            /\ e_results[i].name = e_people[i].name
            /\ e_task[i].kind = "returned" => e_results[i] = e_task[i].result
            /\ e_task[i].kind = "raised"
                 => /\ e_results[i].confidence = "LOW"
                    /\ e_results[i].source = "Pattern guess (fallback after error)"
                    /\ Parseable(i) => e_results[i].email # <<>>

\* C20 witness: the first contact's task raised and the second's returned
C20_Witness ==
  /\ e_pc = "done"
  /\ Len(e_results) = 2
  /\ e_task[1].kind = "raised"
  /\ e_task[2].kind = "returned"
  /\ e_results[1].email # <<>>
  /\ e_results[2].email # <<>>


\* ---- partial retrieval
\* C21: whichever of the five concurrent queries fail, search_serper_wide does
\* not raise and returns the deduplicated candidates parsed from the queries
\* that succeeded
C21_FailedQueriesDoNotAbort ==
  InSeq("serper", f_searches)
    => /\ f_outcome # "raised"
       /\ f_deduped = _deduplicate(ParseAll(f_outcomes, 1))



\* ---- stage and status order
\* the status a reader of the job is given
StoredStatus == j_h.objs[j_h.store].status

\* the moves of the run status the pipeline allows
StatusMoves ==
  { <<"pending", "finding_people">>, <<"finding_people", "finding_emails">>,
    <<"finding_emails", "researching">>, <<"researching", "completed">>,
    <<"finding_people", "failed">> }

\* C22: the status of the search run only moves forward through FINDING_PEOPLE,
\* FINDING_EMAILS, RESEARCHING, COMPLETED, and FAILED is entered only from
\* FINDING_PEOPLE: every step of the search task leaves the stored status as it
\* was or makes one of these moves
C22_StatusOnlyForward ==
  [][j_pc'["search"] # j_pc["search"]
       => (StoredStatus' = StoredStatus \/ <<StoredStatus, StoredStatus'>> \in StatusMoves)]_vars



\* ---- exclusion and deduplication
\* the candidates the searches of the call produced, before deduplication
FindRaw ==
  IF InSeq("serper", f_searches) THEN ParseAll(f_outcomes, 1)
  ELSE Interleave(ResultsOf(f_outcomes[1])
                    \o (IF Len(f_outcomes) = 3 THEN ResultsOf(f_outcomes[3]) ELSE <<>>),
                  ResultsOf(f_outcomes[2]), 1)

Excluded(p) == _normalize_linkedin_url(p.linkedin_url) \in NormalizeExclude(f_exclude_in)

SameKey(p, q) ==
  \/ url_key(p) # <<>> /\ url_key(p) = url_key(q)
  \/ name_key(p) # <<>> /\ name_key(p) = name_key(q)

\* C23: no retrieved candidate outside the exclusion set is lost as a duplicate
\* of an excluded one: after deduplication and exclusion, every such candidate
\* is still there itself or through a duplicate of it
C23_ExclusionBeforeDedup ==
  (f_deduped # <<>> /\ f_outcome # "raised")
    => \A i \in 1..Len(FindRaw) :
         ~Excluded(FindRaw[i])
           => \E k \in 1..Len(f_deduped) :
                /\ ~Excluded(f_deduped[k])
                /\ (f_deduped[k] = FindRaw[i] \/ SameKey(f_deduped[k], FindRaw[i]))



\* ---- matching of scores to candidates
ScoreKey(name) == Lower(Strip(name))

\* the call was given candidates with distinct normalized names and a response
\* of well-formed entries with distinct non-empty normalized names
DistinctNamedEntries ==
  /\ s_resp.kind = "entries"
  /\ \A i \in 1..Len(s_resp.scores) :
       /\ s_resp.scores[i].kind = "number"
       /\ ScoreKey(s_resp.scores[i].name) # <<>>
  /\ \A i, j \in 1..Len(s_resp.scores) :
       i # j => ScoreKey(s_resp.scores[i].name) # ScoreKey(s_resp.scores[j].name)
  /\ \A i, j \in 1..Len(s_people) :
       i # j => ScoreKey(s_people[i].name) # ScoreKey(s_people[j].name)

\* C24: matching does not depend on the order of the response: whatever the
\* position of the entry that carries a candidate's name, the candidate is
\* returned with that entry's score (clamped) and reason
C24_MatchByNameAnyOrder ==
  (s_pc = "done" /\ DistinctNamedEntries)
    => \A i \in 1..Len(s_scored), k \in 1..Len(s_resp.scores) :
         ScoreKey(s_resp.scores[k].name) = ScoreKey(s_scored[i].name)
           => /\ s_scored[i].priority_score = Clamp(s_resp.scores[k].score)
              /\ s_scored[i].priority_reason = s_resp.scores[k].reason

\* a response with one entry per candidate, in the reverse of the candidates'
\* order and with different scores
C24_Witness ==
  /\ s_pc = "done"
  /\ DistinctNamedEntries
  /\ Len(s_people) = 2
  /\ Len(s_resp.scores) = 2
  /\ ScoreKey(s_resp.scores[1].name) = ScoreKey(s_people[2].name)
  /\ ScoreKey(s_resp.scores[2].name) = ScoreKey(s_people[1].name)
  /\ s_resp.scores[1].score # s_resp.scores[2].score



\* ---- hard filter
\* a title the hard filter lets through: no senior-executive keyword, and a
\* non-technical-department keyword only next to a recruiting keyword
TitleAllowed(title) ==
  /\ \A kw \in EXCLUDE_KEYWORDS : kw \notin TitleHas(title)
  /\ (\E dept \in EXCLUDE_DEPARTMENTS : dept \in TitleHas(title)) => "recruit" \in TitleHas(title)

\* C25: on both backends every candidate submitted to the validator and every
\* returned contact has a title the hard filter lets through
C25_HardFilterFinal ==
  /\ f_pc = "validate" => \A i \in 1..Len(f_all) : TitleAllowed(f_all[i].title)
  /\ f_outcome = "returned" => \A i \in 1..Len(f_final) : TitleAllowed(f_final[i].title)

\* a call that retrieved an executive title with a recruiting keyword and
\* returned a department title with a recruiting keyword
C25_Witness ==
  /\ f_outcome = "returned"
  /\ \E i \in 1..Len(FindRaw) : FindRaw[i].title = "Head of Recruiting"
  /\ \E i \in 1..Len(f_final) : f_final[i].title = "Sales Recruiter"



\* ---- concurrent more-leads requests
\* C26: more-leads runs of one job exclude each other: while a more-leads task
\* has been accepted and has not finished, the stored job is not COMPLETED, so
\* start_more_leads answers a further request with 409
C26_MoreLeadsExclusive ==
  \A m \in MoreLeadsTasks :
    j_pc[m] \notin { "idle", "done" } => StoredStatus # "completed"



\* ---- the domain of a job's later calls
\* C27: the domain run_more_leads resolves addresses with is the domain
\* run_search used for the job: a later call of the same task for the same
\* company, made without a website, returns what its first call returned
C27_SameDomainForMoreLeads ==
  \A c \in Callers :
    (dc_pc[c] = "done" /\ dc_first[c] # NoCall
       /\ dc_company[c] = dc_first[c].company /\ dc_website[c] = NoDomain)
      => dc_result[c] = dc_first[c].domain



\* ---- one candidate per entry
\* the entry at candidate j's position carries the name of another candidate
PositionTakenByName(j) ==
  /\ j <= Len(s_resp.scores)
  /\ ScoreEntryFor(s_resp.scores, ScoreKey(s_people[j].name)) = 0
  /\ \E i \in 1..Len(s_people) :
       i # j /\ ScoreEntryFor(s_resp.scores, ScoreKey(s_people[i].name)) = j

\* C28: an entry is applied to at most one candidate: a candidate without an
\* entry of its own name is not given the entry at its position when that
\* entry is matched by name to another candidate (it stays unscored)
C28_EntryAppliedOnce ==
  (s_pc = "done" /\ s_resp.kind = "entries")
    => \A j \in 1..Len(s_people) :
         PositionTakenByName(j)
           => \A r \in 1..Len(s_scored) :
                s_scored[r].name = s_people[j].name
                  => s_scored[r].priority_reason # s_resp.scores[j].reason



\* ---- the size of the selection
\* C29: for every pool and every target, select_final_contacts returns at most
\* target contacts, each of them an element of the pool and none of them
\* selected twice
C29_AtMostTargetFromPool ==
  sel_pc = "done"
    => /\ Len(sel_out) <= sel_target
       /\ \A i \in 1..Len(sel_out) :
            /\ InSeq(sel_out[i], sel_pool)
            /\ Occurrences(sel_out, sel_out[i]) <= Occurrences(sel_pool, sel_out[i])



\* C30: a pattern-derived record labelled MEDIUM has a primary address that
\* matches the convention inferred for the domain (by the matcher
\* reorder_patterns_by_detected applies for that convention)
C30_MediumMatchesConvention ==
  e_pc = "done"
    => \A i \in 1..Len(e_results) :
         (PatternDerived(i) /\ e_results[i].confidence = "MEDIUM")
           => FormatMatches(e_detected, e_results[i].email)

=============================================================================
